---- MODULE Spec2Model ----
(***************************************************************************)
(* Reminder scheduling and delivery engine of the lifebot Telegram bot:    *)
(* the job registry (APScheduler), the per-user scheduling of habit        *)
(* reminders and content pre-generation, the fire-time callbacks and the   *)
(* habit completion handlers.                                              *)
(*                                                                         *)
(* A time of day is a number of minutes since midnight (0..1439); a stored *)
(* time that is NULL is NoTime.  An instant of the week is a weekday       *)
(* (0 = Monday .. 6 = Sunday) and a minute of that day.                    *)
(***************************************************************************)
EXTENDS Integers, Sequences, FiniteSets, TLC

\* ------------------------------------------------------------------ bounds

\* HabitCompletion rows the model lets the table hold.
MaxCompletions == 3

\* HabitContent rows per habit the model lets the table hold.
MaxContentRows == 1

\* ------------------------------------------------------- program constants

\* NULL of a nullable Time column.
NoTime == -1

MinutesPerHour == 60
HoursPerDay == 24
MinutesPerDay == MinutesPerHour * HoursPerDay
Weekdays == 0..6

\* Minutes by which the pre-generation trigger precedes the reminder.
PregenLead == 5

\* HabitContent rows shown this often are not served from the cache again.
MaxUsedCount == 5

hour(t) == t \div MinutesPerHour
minute(t) == t % MinutesPerHour
HM(h, m) == h * MinutesPerHour + m

\* ------------------------------------------------------------ quiet hours

\* The times of day the checks draw from: midnight, the edges of the windows
\* 22:00-07:00, 23:00-07:00 and 09:00-17:00, points inside and outside them.
SampleTimes ==
    { HM(0, 0), HM(6, 30), HM(7, 0), HM(8, 0), HM(9, 0), HM(12, 0),
      HM(17, 0), HM(18, 0), HM(22, 0), HM(23, 0), HM(23, 30), HM(23, 59) }

\* A mutation of _is_quiet_hours: the window closed at quiet_to.
_is_quiet_hours_closed(quiet_from, quiet_to, now) ==
    IF quiet_from = NoTime \/ quiet_to = NoTime
    THEN FALSE
    ELSE IF quiet_from > quiet_to
         THEN now >= quiet_from \/ now <= quiet_to
         ELSE quiet_from <= now /\ now <= quiet_to

\* ReminderScheduler._is_quiet_hours on the user's bounds and the local time.
_is_quiet_hours(quiet_from, quiet_to, now) ==
    IF quiet_from = NoTime \/ quiet_to = NoTime
    THEN FALSE
    ELSE IF quiet_from > quiet_to
         THEN now >= quiet_from \/ now < quiet_to
         ELSE quiet_from <= now /\ now < quiet_to

\* is_in_quiet_hours of the habit handlers, called by habit_snooze_callback.
is_in_quiet_hours(current_time, quiet_from, quiet_to) ==
    IF quiet_from = NoTime \/ quiet_to = NoTime
    THEN FALSE
    ELSE IF quiet_from > quiet_to
         THEN current_time >= quiet_from \/ current_time <= quiet_to
         ELSE quiet_from <= current_time /\ current_time <= quiet_to

\* ------------------------------------------------------------- the store

UserIds == {1}
HabitIds == {1}

\* User.tz: "" stands for NULL; the zones the model knows and their UTC offsets
\* in hours.
KnownZones == {"UTC", "Europe/Moscow", "America/New_York"}
UtcOffset(zone) ==
    CASE zone = "Europe/Moscow" -> 3
      [] zone = "America/New_York" -> -5
      [] OTHER -> 0

\* HabitTemplate rows: id -> category; template_id 0 stands for NULL.
NoTemplate == 0
TemplateCategory(template_id) ==
    CASE template_id = 1 -> "fitness"
      [] template_id = 2 -> "language_reading"
      [] template_id = 3 -> "language_grammar"
      [] OTHER -> ""

\* An RRULE string is the sequence of its ";"-separated parts, each part its
\* key and the ","-separated tokens of its value; <<>> stands for NULL.
NoRrule == <<>>
RrulePart(key, val) == [key |-> key, val |-> val]

NoUser ==
    [exists |-> FALSE, lang |-> "", tz |-> "", quiet_hours_from |-> NoTime,
     quiet_hours_to |-> NoTime, morning_ping_time |-> NoTime, evening_ping_time |-> NoTime]

NoHabit ==
    [exists |-> FALSE, user_id |-> 0, schedule_type |-> "", rrule |-> NoRrule,
     time_of_day |-> NoTime, active |-> FALSE, template_id |-> NoTemplate,
     include_content |-> FALSE]

\* ------------------------------------------------------- the job registry

\* A job id: "habit_{h}_user_{u}", "pregen_{h}_user_{u}", "morning_ping_{u}",
\* "evening_report_{u}", "language_audio_{u}", "language_reading_{u}",
\* "language_questions_{u}" (h = 0 where the id names no habit).
JobId(kind, h, u) == [kind |-> kind, h |-> h, u |-> u]
LanguageJobKinds == {"language_audio", "language_reading", "language_questions"}
JobKinds == {"habit", "pregen", "morning_ping", "evening_report"} \cup LanguageJobKinds
\* The users of the startup rebuild: more than one, so that one user's
\* scheduling can fail before another's.
AllUserIds == {1, 2}
JobIds == [kind : JobKinds, h : HabitIds \cup {0}, u : AllUserIds]

\* CronTrigger(day_of_week=..., hour=..., minute=..., timezone=...): the set of
\* weekdays it fires on (all of them when day_of_week is not given).
CronTrigger(days, h, m, tz) == [days |-> days, hour |-> h, minute |-> m, tz |-> tz]
NoTrigger == [days |-> {}, hour |-> 0, minute |-> 0, tz |-> ""]

\* The instants of the week (UTC) a trigger fires at.
WeekMinutes == 7 * MinutesPerDay
FireInstants(trigger) ==
    { (d * MinutesPerDay + HM(trigger.hour, trigger.minute)
         - UtcOffset(trigger.tz) * MinutesPerHour + WeekMinutes) % WeekMinutes :
      d \in trigger.days }

get_job(jobs, id) == \E j \in jobs : j.id = id
remove_job(jobs, id) == { j \in jobs : j.id # id }
\* add_job(..., replace_existing=True)
add_job(jobs, id, trigger) == { j \in jobs : j.id # id } \cup {[id |-> id, trigger |-> trigger]}

\* The scheduler while a scheduling call runs: the jobs, the trigger each id
\* was last registered with, and whether the call has raised.
Registered(S, id, trigger) ==
    [S EXCEPT !.jobs = add_job(S.jobs, id, trigger), !.lastReg[id] = trigger]

\* ---------------------------------------------------- ReminderScheduler

\* ZoneInfo(user.tz) if user.tz else ZoneInfo("UTC"); ZoneInfo raises on a
\* name it does not know.
ZoneName(user) == IF user.tz # "" THEN user.tz ELSE "UTC"
ZoneInfoRaises(user) == ZoneName(user) \notin KnownZones

\* pregen_hour, pregen_minute: the reminder's hour and minute less 5 minutes,
\* borrowing from the hour and wrapping the hour at midnight.
pregen_minute(t) ==
    IF minute(t) - PregenLead < 0 THEN minute(t) - PregenLead + MinutesPerHour
    ELSE minute(t) - PregenLead
pregen_hour(t) ==
    IF minute(t) - PregenLead < 0
    THEN (IF hour(t) - 1 < 0 THEN hour(t) - 1 + HoursPerDay ELSE hour(t) - 1)
    ELSE hour(t)

\* A mutation of days_map: the weekdays numbered from Sunday = 0, as cron does.
days_map_sunday_first ==
    [tok \in {"MO", "TU", "WE", "TH", "FR", "SA", "SU"} |->
        CASE tok = "SU" -> 0 [] tok = "MO" -> 1 [] tok = "TU" -> 2 [] tok = "WE" -> 3
          [] tok = "TH" -> 4 [] tok = "FR" -> 5 [] tok = "SA" -> 6]

\* days_map of the scheduler: BYDAY token -> CronTrigger weekday (0 = Monday).
days_map ==
    [tok \in {"MO", "TU", "WE", "TH", "FR", "SA", "SU"} |->
        CASE tok = "MO" -> 0 [] tok = "TU" -> 1 [] tok = "WE" -> 2 [] tok = "TH" -> 3
          [] tok = "FR" -> 4 [] tok = "SA" -> 5 [] tok = "SU" -> 6]

\* [part for part in habit.rrule.split(";") if part.startswith("BYDAY=")]
byday_part(rrule) == SelectSeq(rrule, LAMBDA part : part.key = "BYDAY")

RECURSIVE MapDays(_)
\* [days_map[day] for day in days_str.split(",") if day in days_map]
MapDays(toks) ==
    IF toks = <<>> THEN <<>>
    ELSE IF Head(toks) \in DOMAIN days_map
         THEN <<days_map[Head(toks)]>> \o MapDays(Tail(toks))
         ELSE MapDays(Tail(toks))

\* The day_of_week expression "0,2,4" as the list of its numbers.
day_of_week(rrule) == MapDays(byday_part(rrule)[1].val)

\* A mutation of the CronTrigger call: an empty day_of_week expression is
\* accepted (and matches no weekday).
CronTriggerAcceptsAll(dow) == FALSE

\* CronTrigger rejects an empty day_of_week expression with ValueError.
CronTriggerRaises(dow) == dow = <<>>
SeqRange(seq) == { seq[i] : i \in 1..Len(seq) }

\* What _schedule_habit_reminder resolves a habit's schedule to: the reminder
\* and pre-generation triggers, none (trigger stays None), or the early
\* return of the except branch.
HabitTriggers(user, habit) ==
    LET t == habit.time_of_day
        tz == ZoneName(user)
        every == [outcome |-> "trigger",
                  trigger |-> CronTrigger(Weekdays, hour(t), minute(t), tz),
                  pregen_trigger |-> CronTrigger(Weekdays, pregen_hour(t), pregen_minute(t), tz)]
        none == [outcome |-> "none", trigger |-> NoTrigger, pregen_trigger |-> NoTrigger]
    IN  IF habit.schedule_type = "daily" THEN every
        ELSE IF habit.schedule_type = "weekly"
        THEN IF habit.rrule # NoRrule
             THEN IF byday_part(habit.rrule) # <<>>
                  THEN IF CronTriggerRaises(day_of_week(habit.rrule))
                       THEN [none EXCEPT !.outcome = "except"]
                       ELSE [outcome |-> "trigger",
                             trigger |-> CronTrigger(SeqRange(day_of_week(habit.rrule)),
                                                     hour(t), minute(t), tz),
                             pregen_trigger |-> CronTrigger(SeqRange(day_of_week(habit.rrule)),
                                                            pregen_hour(t), pregen_minute(t), tz)]
                  ELSE none
             ELSE every
        ELSE none

\* if pregen_trigger and habit.include_content
WantsPregen(habit) == habit.include_content

\* ReminderScheduler._schedule_habit_reminder
_schedule_habit_reminder(S, u, user, h, habit) ==
    IF habit.time_of_day = NoTime \/ ~habit.active THEN S
    ELSE
    LET job_id == JobId("habit", h, u)
        pregen_job_id == JobId("pregen", h, u)
        S1 == [S EXCEPT !.jobs = IF get_job(S.jobs, job_id)
                                 THEN remove_job(S.jobs, job_id) ELSE S.jobs]
        S2 == [S1 EXCEPT !.jobs = IF get_job(S1.jobs, pregen_job_id)
                                  THEN remove_job(S1.jobs, pregen_job_id) ELSE S1.jobs]
        r == HabitTriggers(user, habit)
    IN  IF ZoneInfoRaises(user) THEN [S2 EXCEPT !.raised = TRUE]
        ELSE IF r.outcome # "trigger" THEN S2
        ELSE LET S3 == Registered(S2, job_id, r.trigger)
             IN  IF WantsPregen(habit)
                 THEN Registered(S3, pregen_job_id, r.pregen_trigger)
                 ELSE S3

\* ReminderScheduler._schedule_morning_ping
_schedule_morning_ping(S, u, user) ==
    LET job_id == JobId("morning_ping", 0, u)
        S1 == [S EXCEPT !.jobs = IF get_job(S.jobs, job_id)
                                 THEN remove_job(S.jobs, job_id) ELSE S.jobs]
    IN  IF ZoneInfoRaises(user) THEN [S1 EXCEPT !.raised = TRUE]
        ELSE Registered(S1, job_id,
                        CronTrigger(Weekdays, hour(user.morning_ping_time),
                                    minute(user.morning_ping_time), ZoneName(user)))

\* ReminderScheduler._schedule_evening_report
_schedule_evening_report(S, u, user) ==
    LET job_id == JobId("evening_report", 0, u)
        S1 == [S EXCEPT !.jobs = IF get_job(S.jobs, job_id)
                                 THEN remove_job(S.jobs, job_id) ELSE S.jobs]
    IN  IF ZoneInfoRaises(user) THEN [S1 EXCEPT !.raised = TRUE]
        ELSE Registered(S1, job_id,
                        CronTrigger(Weekdays, hour(user.evening_ping_time),
                                    minute(user.evening_ping_time), ZoneName(user)))

Min(set) == CHOOSE x \in set : \A y \in set : x <= y

RECURSIVE ScheduleHabits(_, _, _, _, _)
\* for habit in habits: await self._schedule_habit_reminder(user, habit);
\* an exception ends the loop.
ScheduleHabits(S, u, user, hs, table) ==
    IF hs = {} \/ S.raised THEN S
    ELSE LET h == Min(hs)
         IN  ScheduleHabits(_schedule_habit_reminder(S, u, user, h, table[h]),
                            u, user, hs \ {h}, table)

\* A mutation of the habit query of schedule_user_reminders: habits that
\* already have a reminder job are left as they are.
ActiveHabitsUnscheduled(S, u, table) ==
    { h \in HabitIds : table[h].exists /\ table[h].user_id = u /\ table[h].active
                       /\ ~get_job(S.jobs, JobId("habit", h, u)) }

\* select(Habits).where(Habits.user_id == user_id, Habits.active.is_(True))
ActiveHabits(S, u, table) ==
    { h \in HabitIds : table[h].exists /\ table[h].user_id = u /\ table[h].active }

\* ReminderScheduler.schedule_user_reminders
schedule_user_reminders(S, u, utable, table) ==
    IF ~utable[u].exists THEN S
    ELSE
    LET user == utable[u]
        S1 == IF user.morning_ping_time # NoTime THEN _schedule_morning_ping(S, u, user) ELSE S
        S2 == IF S1.raised THEN S1
              ELSE IF user.evening_ping_time # NoTime
                   THEN _schedule_evening_report(S1, u, user) ELSE S1
    IN  IF S2.raised THEN S2
        ELSE ScheduleHabits(S2, u, user, ActiveHabits(S2, u, table), table)

RECURSIVE RescheduleUsers(_, _, _, _)
\* for user in users: if user.lang: await self.schedule_user_reminders(...);
\* an exception ends the loop.
RescheduleUsers(S, us, utable, table) ==
    IF us = {} \/ S.raised THEN S
    ELSE LET u == Min(us)
         IN  RescheduleUsers(IF utable[u].lang # ""
                             THEN schedule_user_reminders(S, u, utable, table) ELSE S,
                             us \ {u}, utable, table)

\* A mutation of reschedule_all_users: the loop is left after its first user.
reschedule_first_user(S, utable, table) ==
    LET us == { u \in DOMAIN utable : utable[u].exists }
    IN  IF us = {} THEN S ELSE RescheduleUsers(S, {Min(us)}, utable, table)

\* ReminderScheduler.reschedule_all_users
reschedule_all_users(S, utable, table) ==
    RescheduleUsers(S, { u \in DOMAIN utable : utable[u].exists }, utable, table)

\* ------------------------------------------------------------------ state

VARIABLES
    users,        \* table users: user_id -> row
    habits,       \* table habits: id -> row
    nextHabitId,  \* the id the next inserted habit gets
    completions,  \* table habit_completions, in insertion order
    contents,     \* table habit_contents: per habit, the rows and the newest row's used_count
    jobs,         \* the scheduler's jobs
    lastReg,      \* per job id, the trigger of its most recent registration
    started,      \* _main has started the scheduler and rebuilt the jobs
    last,         \* the operation that ran last and what it did
    q,            \* the quiet-hours evaluation on its own
    calls,        \* habit_done_callback invocations in flight
    langSettings, \* table user_language_settings: user_id -> row
    dtask,        \* table delegated_tasks: the delegated task
    clock,        \* datetime.now(), in hours
    sent,         \* the escalation reminders delivered so far, per tier
    dtasks,       \* table delegated_tasks with several rows: id -> row
    loaded,       \* the sweep in flight: the row its session loaded
    lhabits,      \* table language_habits: id -> row
    progress,     \* table language_progress, in insertion order
    lsettings,    \* audio_enabled and API token of the user's language settings
    day,          \* datetime.utcnow().date()
    stage,        \* the audio-stage callback in flight
    lsent         \* the stage messages delivered so far, per day

vars == <<users, habits, nextHabitId, completions, contents, jobs, lastReg, started, last, q, calls,
          langSettings, dtask, clock, sent, dtasks, loaded, lhabits, progress, lsettings, day,
          stage, lsent>>

delegVars == <<dtask, clock, sent>>
langVars == <<lhabits, progress, lsettings, day, stage, lsent>>
extVars == <<langSettings, delegVars, dtasks, loaded, langVars>>
aux == <<q, calls, extVars>>
storeVars == <<users, habits, nextHabitId, completions, contents>>
schedVars == <<jobs, lastReg, started>>

\* NULL of the nullable DateTime column last_reminder_at.
NoInstant == -1

NoLast ==
    [op |-> "", u |-> 0, h |-> 0, kind |-> "", dow |-> 0, at |-> NoTime, now |-> NoTime,
     old |-> NoTime, date |-> 0, skipped |-> "", sends |-> 0, changed |-> FALSE, raised |-> FALSE,
     had |-> FALSE, answer |-> "", count |-> 0, stamp |-> NoInstant, status |-> "", toAssignee |-> 0,
     toAssigner |-> 0, selected |-> {}, processed |-> {}, raisedFor |-> {},
     times |-> <<>>, attempted |-> {}, attempts |-> 0, content |-> "", failed |-> FALSE,
     escaped |-> FALSE, requests |-> 0, fetched |-> 0, stored |-> 0]

\* Invocations of habit_done_callback the model lets run at once.
MaxDoneCalls == 2
DoneCalls == 1..MaxDoneCalls
NoCall == [pc |-> "idle", u |-> 0, h |-> 0, date |-> 0]

NoQ ==
    [quiet_from |-> NoTime, quiet_to |-> NoTime, now |-> 0, evaluated |-> FALSE, result |-> FALSE,
     snooze |-> FALSE]

\* UserLanguageSettings: the three times of the audio workflow, NULL at first.
NoLangSettings ==
    [exists |-> FALSE, audio_time |-> NoTime, reading_time |-> NoTime, questions_time |-> NoTime]

\* DelegatedTask: no row; status, deadline, reminder_count, last_reminder_at
\* and created_at of the row, and whether the Task row it names exists.
NoDelegatedTask ==
    [exists |-> FALSE, status |-> "", created_at |-> 0, deadline |-> 0, reminder_count |-> 0,
     last_reminder_at |-> NoInstant, task_exists |-> FALSE]

\* Reminders delivered per tier (overdue: to the assignee and to the assigner).
NoSent == [halfway |-> 0, one_day |-> 0, today |-> 0, overdue_assignee |-> 0,
           overdue_assigner |-> 0]

\* No sweep is in flight.
NoLoaded == [pc |-> "idle", dt |-> NoDelegatedTask, now |-> 0]

\* Ids of the rows of delegated_tasks and of language_habits.
DelegIds == {1, 2}
LHabitIds == {1, 2}

\* LanguageHabit: no row; current_book_id is kept as "a book is selected".
NoLHabit ==
    [exists |-> FALSE, user_id |-> 0, habit_type |-> "", is_active |-> FALSE, has_book |-> FALSE,
     daily_goal |-> 0, current_streak |-> 0, longest_streak |-> 0, last_completed |-> NoInstant]

\* The audio-stage callback is not running.
NoStage == [pc |-> "idle", row |-> 0, h |-> 0, today |-> 0]

\* Per day, the audio (or its fallback) and the questions messages delivered.
MaxDay == 1
Days == 0..MaxDay
NoLSent == [kind \in {"audio", "questions"} |-> [d \in Days |-> 0]]

\* No delegated task beyond dtask, no language habit, no progress row.
NoLanguage ==
    /\ dtasks = [i \in DelegIds |-> NoDelegatedTask]
    /\ loaded = NoLoaded
    /\ lhabits = [h \in LHabitIds |-> NoLHabit]
    /\ progress = <<>>
    /\ lsettings = [exists |-> FALSE, audio_enabled |-> FALSE, has_token |-> FALSE]
    /\ day = 0
    /\ stage = NoStage
    /\ lsent = NoLSent

\* ------------------------------------------------------------------ inputs

\* The users the store holds when the process starts (onboarding is done).
Profiles ==
    { [exists |-> TRUE, lang |-> "ru", tz |-> "Europe/Moscow",
       quiet_hours_from |-> HM(23, 0), quiet_hours_to |-> HM(7, 0),
       morning_ping_time |-> HM(6, 45), evening_ping_time |-> HM(21, 0)],
      [exists |-> TRUE, lang |-> "en", tz |-> "",
       quiet_hours_from |-> NoTime, quiet_hours_to |-> NoTime,
       morning_ping_time |-> NoTime, evening_ping_time |-> NoTime] }

\* Times of day the wizard and the edit-time handler are given: 00:02 (the
\* pre-generation borrows across midnight), 06:30, 08:00.
HabitTimes == { HM(0, 2), HM(6, 30), HM(8, 0) }

\* Weekday selections of the wizard (never empty: confirm_weekdays refuses).
WeekdayChoices == { {0, 2}, {6} }

\* (template_id, include_content) as the wizard leaves them: no template,
\* a content template with and without content, a language template.
ContentChoices ==
    { <<NoTemplate, FALSE>>, <<1, TRUE>>, <<1, FALSE>>, <<2, TRUE>>, <<3, TRUE>> }

\* Rows the habits table may hold from before the process started whose
\* weekly rrule was not written by create_habit: no BYDAY part, only unknown
\* day tokens, an unknown token among known ones, no rrule at all.
LegacyRrules ==
    { <<RrulePart("FREQ", <<"WEEKLY">>)>>,
      <<RrulePart("FREQ", <<"WEEKLY">>), RrulePart("BYDAY", <<"XX", "mo">>)>>,
      <<RrulePart("FREQ", <<"WEEKLY">>), RrulePart("BYDAY", <<"XX", "FR">>)>>,
      NoRrule }

LegacyHabits ==
    { [exists |-> TRUE, user_id |-> 1, schedule_type |-> "weekly", rrule |-> r,
       time_of_day |-> HM(8, 0), active |-> TRUE, template_id |-> 1,
       include_content |-> TRUE] : r \in LegacyRrules }

\* ---------------------------------------------------------------- startup

\* The store as the process finds it, and the scheduler as constructed.
Init ==
    /\ users \in [UserIds -> Profiles]
    /\ \/ /\ habits = [h \in HabitIds |-> NoHabit]
          /\ nextHabitId = 1
       \/ \E row \in LegacyHabits :
             /\ habits = [h \in HabitIds |-> IF h = 1 THEN row ELSE NoHabit]
             /\ nextHabitId = 2
    /\ completions = <<>>
    /\ contents = [h \in HabitIds |-> [rows |-> 0, used |-> 0]]
    /\ jobs = {}
    /\ lastReg = [id \in JobIds |-> NoTrigger]
    /\ started = FALSE
    /\ last = NoLast
    /\ q = NoQ
    /\ calls = [p \in DoneCalls |-> NoCall]
    /\ langSettings = [u \in UserIds |-> NoLangSettings]
    /\ dtask = NoDelegatedTask
    /\ clock = 0
    /\ sent = NoSent
    /\ NoLanguage

Sched == [jobs |-> jobs, lastReg |-> lastReg, raised |-> FALSE]

\* The scheduler of a new process: AsyncIOScheduler with its memory job store.
NewSched == [jobs |-> {}, lastReg |-> lastReg, raised |-> FALSE]

\* _main: scheduler.start(), then reschedule_all_users(), then polling.  An
\* exception of reschedule_all_users leaves _main before polling starts: the
\* process ends and no handler runs.
Startup ==
    /\ ~started
    /\ LET S == reschedule_all_users(NewSched, users, habits)
       IN  /\ jobs' = S.jobs
           /\ lastReg' = S.lastReg
           /\ last' = [NoLast EXCEPT !.op = "startup", !.raised = S.raised]
           /\ started' = ~S.raised
    /\ UNCHANGED <<storeVars, aux>>

\* --------------------------------------------------------- habit handlers

RECURSIVE SortedSeq(_)
\* sorted(weekdays)
SortedSeq(set) ==
    IF set = {} THEN <<>> ELSE <<Min(set)>> \o SortedSeq(set \ {Min(set)})

\* days_map of create_habit: weekday index (0 = Monday) -> BYDAY token.
DayNames == <<"MO", "TU", "WE", "TH", "FR", "SA", "SU">>

\* f"FREQ=WEEKLY;BYDAY={byday}"
WeeklyRrule(weekdays) ==
    LET sorted == SortedSeq(weekdays)
    IN  <<RrulePart("FREQ", <<"WEEKLY">>),
          RrulePart("BYDAY", [i \in 1..Len(sorted) |-> DayNames[sorted[i] + 1]])>>

\* create_habit: inserts the habit the wizard collected and reschedules the
\* user; a failure of the rescheduling is logged, not raised.
create_habit(u, schedule_type, weekdays, t, template_id, include_content) ==
    /\ started
    /\ users[u].exists
    /\ nextHabitId \in HabitIds
    /\ LET habit == [exists |-> TRUE, user_id |-> u, schedule_type |-> schedule_type,
                     rrule |-> IF schedule_type = "weekly" THEN WeeklyRrule(weekdays)
                               ELSE NoRrule,
                     time_of_day |-> t, active |-> TRUE, template_id |-> template_id,
                     include_content |-> include_content]
           table == [habits EXCEPT ![nextHabitId] = habit]
           S == schedule_user_reminders(Sched, u, users, table)
       IN  /\ habits' = table
           /\ jobs' = S.jobs
           /\ lastReg' = S.lastReg
           /\ last' = [NoLast EXCEPT !.op = "create_habit", !.u = u, !.h = nextHabitId]
    /\ nextHabitId' = nextHabitId + 1
    /\ UNCHANGED <<users, completions, contents, started, aux>>

\* habit_toggle_callback: H_TOGGLE:{habit_id}:{on|off}
habit_toggle_callback(u, h, action) ==
    /\ started
    /\ habits[h].exists /\ habits[h].user_id = u
    /\ LET table == [habits EXCEPT ![h].active = (action = "on")]
           S == schedule_user_reminders(Sched, u, users, table)
       IN  /\ habits' = table
           /\ jobs' = S.jobs
           /\ lastReg' = S.lastReg
           /\ last' = [NoLast EXCEPT !.op = "habit_toggle", !.u = u, !.h = h,
                                     !.answer = action, !.raised = S.raised]
    /\ UNCHANGED <<users, nextHabitId, completions, contents, started, aux>>

\* habit_delete_confirm_callback: deletes the habit and its completions.
habit_delete_confirm_callback(u, h) ==
    /\ started
    /\ habits[h].exists /\ habits[h].user_id = u
    /\ LET table == [habits EXCEPT ![h] = NoHabit]
           S == schedule_user_reminders(Sched, u, users, table)
       IN  /\ habits' = table
           /\ jobs' = S.jobs
           /\ lastReg' = S.lastReg
           /\ last' = [NoLast EXCEPT !.op = "habit_delete", !.u = u, !.h = h,
                                     !.raised = S.raised]
    /\ completions' = SelectSeq(completions, LAMBDA c : c.habit_id # h)
    /\ UNCHANGED <<users, nextHabitId, contents, started, aux>>

\* habit_edit_time_process / habit_edit_time_custom: a valid HH:MM was given.
habit_edit_time_process(u, h, t) ==
    /\ started
    /\ habits[h].exists /\ habits[h].user_id = u
    /\ LET table == [habits EXCEPT ![h].time_of_day = t]
           S == schedule_user_reminders(Sched, u, users, table)
       IN  /\ habits' = table
           /\ jobs' = S.jobs
           /\ lastReg' = S.lastReg
           /\ last' = [NoLast EXCEPT !.op = "habit_edit_time", !.u = u, !.h = h,
                                     !.old = habits[h].time_of_day, !.at = t,
                                     !.raised = S.raised]
    /\ UNCHANGED <<users, nextHabitId, completions, contents, started, aux>>

\* The minutes the snooze button of a habit reminder carries (H_Z:{id}:15).
SnoozeMinutes == 15

\* The wall-clock times at which the snooze button is pressed.
SnoozeTimes == {HM(6, 30), HM(12, 0)}

\* habit_snooze_callback: the habit and the user are loaded; within the quiet
\* hours the message becomes "quiet hours, in the morning", otherwise it
\* becomes "in N minutes". Nothing is written and no job is registered.
habit_snooze_callback(u, h, snooze_minutes, current_time) ==
    /\ started
    /\ LET habit == habits[h]
           user == users[u]
           answer == IF ~habit.exists THEN "habit_not_found"
                     ELSE IF ~user.exists THEN "user_not_found"
                     ELSE IF is_in_quiet_hours(current_time, user.quiet_hours_from,
                                               user.quiet_hours_to)
                          THEN "quiet_hours"
                          ELSE "snoozed"
       IN  last' = [NoLast EXCEPT !.op = "habit_snooze", !.u = u, !.h = h,
                                  !.now = current_time, !.answer = answer,
                                  !.count = snooze_minutes]
    /\ UNCHANGED <<storeVars, schedVars, aux>>

Handlers ==
    \/ \E u \in UserIds, t \in HabitTimes, c \in ContentChoices :
          \/ create_habit(u, "daily", {}, t, c[1], c[2])
          \/ \E w \in WeekdayChoices : create_habit(u, "weekly", w, t, c[1], c[2])
    \/ \E u \in UserIds, h \in HabitIds, action \in {"on", "off"} :
          habit_toggle_callback(u, h, action)
    \/ \E u \in UserIds, h \in HabitIds : habit_delete_confirm_callback(u, h)
    \/ \E u \in UserIds, h \in HabitIds, t \in HabitTimes : habit_edit_time_process(u, h, t)
    \/ \E u \in UserIds, h \in HabitIds, current_time \in SnoozeTimes :
          habit_snooze_callback(u, h, SnoozeMinutes, current_time)

\* ------------------------------------------------------ habit completions

\* Completion dates the reminder buttons carry (YYYYMMDD).
Dates == {20251020, 20251021}

Completion(h, u, date, status) ==
    [habit_id |-> h, user_id |-> u, completion_date |-> date, status |-> status]

\* The rows the query of check_duplicate_completion selects.
DoneRows(rows, u, h, date) ==
    { i \in 1..Len(rows) : rows[i] = Completion(h, u, date, "done") }

\* A mutation of check_duplicate_completion: the query matches no row.
check_duplicate_completion_blind(rows, u, h, date) == "no"

\* check_duplicate_completion: scalar_one_or_none() is None for no row, the
\* row for one, and raises MultipleResultsFound for more.
check_duplicate_completion(rows, u, h, date) ==
    CASE Cardinality(DoneRows(rows, u, h, date)) = 0 -> "no"
      [] Cardinality(DoneRows(rows, u, h, date)) = 1 -> "yes"
      [] OTHER -> "raises"

\* What habit_done_callback answers on the store it reads.
DoneAnswer(rows, table, u, h, date) ==
    IF ~table[h].exists THEN "not_found"
    ELSE CASE check_duplicate_completion(rows, u, h, date) = "yes" -> "already"
           [] check_duplicate_completion(rows, u, h, date) = "raises" -> "error"
           [] OTHER -> "recorded"

\* habit_done_callback, run from its first line to its last with no other
\* handler in between.
habit_done_callback(u, h, date) ==
    /\ started
    /\ \A p \in DoneCalls : calls[p].pc = "idle"
    /\ LET answer == DoneAnswer(completions, habits, u, h, date)
       IN  /\ answer = "recorded" => Len(completions) < MaxCompletions
           /\ completions' = IF answer = "recorded"
                             THEN Append(completions, Completion(h, u, date, "done"))
                             ELSE completions
           /\ last' = [NoLast EXCEPT !.op = "habit_done", !.u = u, !.h = h, !.date = date,
                                     !.had = (DoneRows(completions, u, h, date) # {}),
                                     !.changed = (answer = "recorded"),
                                     !.answer = answer]
    /\ UNCHANGED <<users, habits, nextHabitId, contents, schedVars, aux>>

\* habit_skip_callback
habit_skip_callback(u, h, date) ==
    /\ started
    /\ habits[h].exists
    /\ Len(completions) < MaxCompletions
    /\ completions' = Append(completions, Completion(h, u, date, "skipped"))
    /\ last' = [NoLast EXCEPT !.op = "habit_skip", !.u = u, !.h = h, !.date = date,
                              !.changed = TRUE, !.answer = "skipped"]
    /\ UNCHANGED <<users, habits, nextHabitId, contents, schedVars, aux>>

\* habit_done_callback up to its duplicate check: the habit is loaded and
\* check_duplicate_completion has answered; the handler is suspended before
\* session.add / commit unless it has returned.
habit_done_check(p, u, h, date) ==
    /\ started
    /\ calls[p].pc = "idle"
    /\ LET answer == DoneAnswer(completions, habits, u, h, date)
       IN  /\ calls' = [calls EXCEPT ![p] = IF answer = "recorded"
                                            THEN [pc |-> "checked", u |-> u, h |-> h,
                                                  date |-> date]
                                            ELSE NoCall]
           /\ last' = [NoLast EXCEPT !.op = "habit_done_check", !.u = u, !.h = h,
                                     !.date = date,
                                     !.had = (DoneRows(completions, u, h, date) # {}),
                                     !.answer = IF answer = "recorded" THEN "" ELSE answer]
    /\ UNCHANGED <<storeVars, schedVars, q, extVars>>

\* habit_done_callback from session.add to the end.
habit_done_commit(p) ==
    /\ calls[p].pc = "checked"
    /\ Len(completions) < MaxCompletions
    /\ completions' = Append(completions,
                             Completion(calls[p].h, calls[p].u, calls[p].date, "done"))
    /\ calls' = [calls EXCEPT ![p] = NoCall]
    /\ last' = [NoLast EXCEPT !.op = "habit_done_commit", !.u = calls[p].u, !.h = calls[p].h,
                              !.date = calls[p].date, !.changed = TRUE,
                              !.answer = "recorded"]
    /\ UNCHANGED <<users, habits, nextHabitId, contents, schedVars, q, extVars>>

\* -------------------------------------------------------------- callbacks

\* datetime.now(tz).time() of the user when a job's trigger fires on the
\* trigger's weekday dow: the trigger's wall-clock time, moved from the
\* trigger's zone to the user's present zone.
LocalNow(trigger, user) ==
    (HM(trigger.hour, trigger.minute)
       + (UtcOffset(ZoneName(user)) - UtcOffset(trigger.tz)) * MinutesPerHour
       + MinutesPerDay) % MinutesPerDay

IsLanguageCategory(template_id) ==
    TemplateCategory(template_id) \in {"language_reading", "language_grammar"}

\* llm_service.generate_habit_content: the newest row shown fewer than 5
\* times is served when fresh, otherwise a new row is saved.
CacheHit(c, fresh) == c.rows > 0 /\ c.used < MaxUsedCount /\ fresh
generate_habit_content(c, fresh) ==
    IF CacheHit(c, fresh) THEN c ELSE [rows |-> c.rows + 1, used |-> 0]

\* llm_service.mark_content_used
mark_content_used(c) == [c EXCEPT !.used = c.used + 1]

\* A mutation of the guards of _send_habit_reminder: quiet hours are not
\* looked at.
SuppressedIgnoringQuiet(user, habit, now) ==
    IF ~user.exists \/ ~habit.exists \/ ~habit.active THEN "missing" ELSE ""

\* Why _send_habit_reminder returns before building a message, if it does.
Suppressed(user, habit, now) ==
    IF ~user.exists \/ ~habit.exists \/ ~habit.active THEN "missing"
    ELSE IF _is_quiet_hours(user.quiet_hours_from, user.quiet_hours_to, now) THEN "quiet"
    ELSE ""

\* How building the content ends: it is returned, an exception reaches
\* _send_habit_reminder, or _get_language_content absorbs a failure of the
\* Language API and returns its error text as the content.
ContentOutcomes == {"ok", "raises", "notice"}

\* A callback whose try block lets the exception of the content through.
GenerationErrorPropagates(gen) == gen = "raises"

\* try: ... except Exception around the content block of
\* _send_habit_reminder: nothing raised there leaves the callback.
GenerationErrorEscapes(gen) == FALSE

\* The content part of the message of _send_habit_reminder.
ContentPart(habit, gen) ==
    IF ~habit.include_content \/ gen = "raises" THEN ""
    ELSE IF gen = "notice" THEN "notice" ELSE "content"

\* A callback that lets the notifier's exception through.
NotifierErrorPropagates(sendOk) == ~sendOk

\* try: await self.bot.send_message(...) except Exception: logger.error(...)
NotifierErrorEscapes(sendOk) == FALSE

\* ReminderScheduler._send_habit_reminder, fired by job j on weekday dow.
\* gen: how building the content ends; fresh: the cached content is younger
\* than 7 days; sendOk: the notifier delivers.
_send_habit_reminder(j, dow, gen, fresh, sendOk) ==
    LET u == j.id.u
        h == j.id.h
        user == users[u]
        habit == habits[h]
        now == LocalNow(j.trigger, user)
        why == Suppressed(user, habit, now)
        genOk == gen = "ok"
        lost == why = "" /\ habit.include_content /\ GenerationErrorEscapes(gen)
        attempts == IF why = "" /\ ~lost THEN 1 ELSE 0
        generates == why = "" /\ habit.include_content /\ genOk
                     /\ ~IsLanguageCategory(habit.template_id)
        c == IF generates
             THEN mark_content_used(generate_habit_content(contents[h], fresh))
             ELSE contents[h]
    IN  /\ started
        /\ j.id.kind = "habit"
        /\ gen = "notice" => IsLanguageCategory(habit.template_id)
        /\ c.rows <= MaxContentRows
        /\ contents' = [contents EXCEPT ![h] = c]
        /\ last' = [NoLast EXCEPT !.op = "fire", !.kind = "habit", !.u = u, !.h = h,
                                  !.dow = dow, !.at = HM(j.trigger.hour, j.trigger.minute),
                                  !.now = now, !.skipped = why,
                                  !.raised = (why = "" /\ habit.include_content
                                              /\ gen = "raises"),
                                  !.attempts = attempts,
                                  !.content = IF attempts = 1 THEN ContentPart(habit, gen)
                                              ELSE "",
                                  !.sends = IF attempts = 1 /\ sendOk THEN 1 ELSE 0,
                                  !.failed = (attempts = 1 /\ ~sendOk),
                                  !.escaped = (lost \/ (attempts = 1
                                                         /\ NotifierErrorEscapes(sendOk))),
                                  !.changed = (c # contents[h])]
        /\ UNCHANGED <<users, habits, nextHabitId, completions, schedVars, aux>>

\* A mutation of _pregenerate_habit_content: language habits are not skipped.
PregenSkipsNever(habit) ==
    ~habit.exists \/ ~habit.active \/ ~habit.include_content

\* The early returns of _pregenerate_habit_content.
PregenSkips(habit) ==
    \/ ~habit.exists \/ ~habit.active \/ ~habit.include_content
    \/ IsLanguageCategory(habit.template_id)

\* ReminderScheduler._pregenerate_habit_content
_pregenerate_habit_content(j, genOk, fresh) ==
    LET h == j.id.h
        habit == habits[h]
        c == IF ~PregenSkips(habit) /\ genOk
             THEN generate_habit_content(contents[h], fresh) ELSE contents[h]
    IN  /\ started
        /\ j.id.kind = "pregen"
        /\ j.trigger.days # {}
        /\ c.rows <= MaxContentRows
        /\ contents' = [contents EXCEPT ![h] = c]
        /\ last' = [NoLast EXCEPT !.op = "fire", !.kind = "pregen", !.u = j.id.u, !.h = h,
                                  !.at = HM(j.trigger.hour, j.trigger.minute),
                                  !.skipped = IF PregenSkips(habit) THEN "skip" ELSE "",
                                  !.changed = (c # contents[h])]
        /\ UNCHANGED <<users, habits, nextHabitId, completions, schedVars, aux>>

\* ReminderScheduler._send_morning_ping / _send_evening_report: neither
\* writes to the store.
_send_ping(j, sendOk) ==
    LET u == j.id.u
        user == users[u]
        now == LocalNow(j.trigger, user)
        why == IF ~user.exists THEN "missing"
               ELSE IF _is_quiet_hours(user.quiet_hours_from, user.quiet_hours_to, now)
                    THEN "quiet" ELSE ""
    IN  /\ started
        /\ j.id.kind \in {"morning_ping", "evening_report"}
        /\ j.trigger.days # {}
        /\ last' = [NoLast EXCEPT !.op = "fire", !.kind = j.id.kind, !.u = u,
                                  !.at = HM(j.trigger.hour, j.trigger.minute),
                                  !.now = now, !.skipped = why,
                                  !.attempts = IF why = "" THEN 1 ELSE 0,
                                  !.sends = IF why = "" /\ sendOk THEN 1 ELSE 0,
                                  !.failed = (why = "" /\ ~sendOk),
                                  !.escaped = (why = "" /\ NotifierErrorEscapes(sendOk))]
        /\ UNCHANGED <<storeVars, schedVars, aux>>

\* The scheduler's clock: a registered job comes due on one of its trigger's
\* weekdays (dow, which only the habit reminder's record keeps) and its
\* callback runs.
Fire ==
    \/ \E j \in jobs : \E dow \in j.trigger.days :
          \E gen \in ContentOutcomes, fresh \in BOOLEAN, sendOk \in BOOLEAN :
             _send_habit_reminder(j, dow, gen, fresh, sendOk)
    \/ \E j \in jobs : \E genOk \in BOOLEAN, fresh \in BOOLEAN :
          _pregenerate_habit_content(j, genOk, fresh)
    \/ \E j \in jobs : \E sendOk \in BOOLEAN : _send_ping(j, sendOk)

Next == Startup \/ Handlers \/ Fire

Spec == Init /\ [][Next]_vars

\* ------------------------------------------------- completions on their own

\* The wizard's plain habit: daily at 08:00, no template.
CreatePlainHabit == \E u \in UserIds : create_habit(u, "daily", {}, HM(8, 0), NoTemplate, FALSE)

DeleteHabit == \E u \in UserIds, h \in HabitIds : habit_delete_confirm_callback(u, h)

\* Completions marked one handler after the other.
DoneNext ==
    \/ Startup
    \/ CreatePlainHabit
    \/ DeleteHabit
    \/ \E u \in UserIds, h \in HabitIds, date \in Dates : habit_done_callback(u, h, date)
    \/ \E u \in UserIds, h \in HabitIds, date \in Dates : habit_skip_callback(u, h, date)

SpecDone == Init /\ [][DoneNext]_vars

\* Completions marked by handlers that suspend at their awaits.
RaceNext ==
    \/ Startup
    \/ CreatePlainHabit
    \/ DeleteHabit
    \/ \E p \in DoneCalls, u \in UserIds, h \in HabitIds, date \in Dates :
          habit_done_check(p, u, h, date)
    \/ \E p \in DoneCalls : habit_done_commit(p)

SpecRace == Init /\ [][RaceNext]_vars

\* ----------------------------------------------- quiet hours on its own

\* The quiet-hours evaluation on its own: inputs drawn, then evaluated.
QuietInit ==
    /\ \E f \in SampleTimes \cup {NoTime}, t \in SampleTimes \cup {NoTime}, n \in SampleTimes :
          q = [quiet_from |-> f, quiet_to |-> t, now |-> n, evaluated |-> FALSE, result |-> FALSE,
               snooze |-> FALSE]
    /\ users = [u \in UserIds |-> NoUser]
    /\ habits = [h \in HabitIds |-> NoHabit]
    /\ nextHabitId = 1
    /\ completions = <<>>
    /\ contents = [h \in HabitIds |-> [rows |-> 0, used |-> 0]]
    /\ jobs = {}
    /\ lastReg = [id \in JobIds |-> NoTrigger]
    /\ started = FALSE
    /\ last = NoLast
    /\ calls = [p \in DoneCalls |-> NoCall]
    /\ langSettings = [u \in UserIds |-> NoLangSettings]
    /\ dtask = NoDelegatedTask
    /\ clock = 0
    /\ sent = NoSent
    /\ NoLanguage

QuietEvaluate ==
    /\ ~q.evaluated
    /\ q' = [q EXCEPT !.evaluated = TRUE,
                      !.result = _is_quiet_hours(q.quiet_from, q.quiet_to, q.now),
                      !.snooze = is_in_quiet_hours(q.now, q.quiet_from, q.quiet_to)]
    /\ UNCHANGED <<storeVars, schedVars, last, calls, extVars>>

QuietNext == QuietEvaluate

SpecQuiet == QuietInit /\ [][QuietNext]_vars

\* ------------------------------------- startup rebuild and settings handlers

\* A timezone name ZoneInfo cannot resolve on the host.
UnknownZone == "Mars/Phobos"

\* The users table the process may find at startup: onboarded users with and
\* without pings, a row whose lang is NULL (onboarding not completed), and an
\* onboarded user whose stored timezone does not resolve.
StartProfiles ==
    Profiles \cup
    { [exists |-> TRUE, lang |-> "", tz |-> "Europe/Moscow",
       quiet_hours_from |-> NoTime, quiet_hours_to |-> NoTime,
       morning_ping_time |-> HM(6, 45), evening_ping_time |-> NoTime],
      [exists |-> TRUE, lang |-> "ru", tz |-> UnknownZone,
       quiet_hours_from |-> NoTime, quiet_hours_to |-> NoTime,
       morning_ping_time |-> HM(7, 0), evening_ping_time |-> NoTime] }

\* The habits table the process may find at startup: a daily habit, a weekly
\* habit on Mondays and Wednesdays, a weekly habit with unknown day tokens, an
\* inactive habit, a habit without a time of day.
StartHabits ==
    LET daily == [exists |-> TRUE, user_id |-> 1, schedule_type |-> "daily", rrule |-> NoRrule,
                  time_of_day |-> HM(8, 0), active |-> TRUE, template_id |-> NoTemplate,
                  include_content |-> FALSE]
    IN  { daily,
          [daily EXCEPT !.schedule_type = "weekly", !.rrule = WeeklyRrule({0, 2})],
          [daily EXCEPT !.schedule_type = "weekly",
                        !.rrule = <<RrulePart("FREQ", <<"WEEKLY">>),
                                    RrulePart("BYDAY", <<"XX">>)>>],
          [daily EXCEPT !.active = FALSE],
          [daily EXCEPT !.time_of_day = NoTime] }

\* UserLanguageSettings with the audio workflow configured: 08:00, 10:00, 20:00.
FullLangSettings ==
    [exists |-> TRUE, audio_time |-> HM(8, 0), reading_time |-> HM(10, 0),
     questions_time |-> HM(20, 0)]

StartInit ==
    /\ users \in [AllUserIds -> StartProfiles]
    /\ \/ /\ habits = [h \in HabitIds |-> NoHabit]
          /\ nextHabitId = 1
       \/ \E row \in StartHabits, owner \in AllUserIds :
             /\ habits = [h \in HabitIds |-> [row EXCEPT !.user_id = owner]]
             /\ nextHabitId = 2
    /\ completions = <<>>
    /\ contents = [h \in HabitIds |-> [rows |-> 0, used |-> 0]]
    /\ jobs = {}
    /\ lastReg = [id \in JobIds |-> NoTrigger]
    /\ started = FALSE
    /\ last = NoLast
    /\ q = NoQ
    /\ calls = [p \in DoneCalls |-> NoCall]
    /\ \E row \in {[NoLangSettings EXCEPT !.exists = TRUE], FullLangSettings} :
          langSettings = [u \in AllUserIds |-> IF u = 1 THEN row ELSE NoLangSettings]
    /\ dtask = NoDelegatedTask
    /\ clock = 0
    /\ sent = NoSent
    /\ NoLanguage

\* Timezones of the buttons of settings_tz_menu.
TzButtons == {"Europe/Moscow", "UTC"}

\* settings_tz_set: SET_TZ:{tz}
settings_tz_set(u, tz) ==
    /\ started
    /\ users[u].exists
    /\ users' = [users EXCEPT ![u].tz = tz]
    /\ last' = [NoLast EXCEPT !.op = "settings_tz", !.u = u]
    /\ UNCHANGED <<habits, nextHabitId, completions, contents, schedVars, aux>>

\* settings_morning_save: a valid HH:MM was given.
settings_morning_save(u, t) ==
    /\ started
    /\ users[u].exists
    /\ users' = [users EXCEPT ![u].morning_ping_time = t]
    /\ last' = [NoLast EXCEPT !.op = "settings_morning", !.u = u, !.at = t]
    /\ UNCHANGED <<habits, nextHabitId, completions, contents, schedVars, aux>>

\* settings_evening_save: a valid HH:MM was given.
settings_evening_save(u, t) ==
    /\ started
    /\ users[u].exists
    /\ users' = [users EXCEPT ![u].evening_ping_time = t]
    /\ last' = [NoLast EXCEPT !.op = "settings_evening", !.u = u, !.at = t]
    /\ UNCHANGED <<habits, nextHabitId, completions, contents, schedVars, aux>>

\* settings_morning_off: SET_MORNING_OFF stores NULL and commits; the
\* scheduler is not touched.
settings_morning_off(u) ==
    /\ started
    /\ users[u].exists
    /\ users' = [users EXCEPT ![u].morning_ping_time = NoTime]
    /\ last' = [NoLast EXCEPT !.op = "settings_morning_off", !.u = u]
    /\ UNCHANGED <<habits, nextHabitId, completions, contents, schedVars, aux>>

\* settings_evening_off: SET_EVENING_OFF
settings_evening_off(u) ==
    /\ started
    /\ users[u].exists
    /\ users' = [users EXCEPT ![u].evening_ping_time = NoTime]
    /\ last' = [NoLast EXCEPT !.op = "settings_evening_off", !.u = u]
    /\ UNCHANGED <<habits, nextHabitId, completions, contents, schedVars, aux>>

\* process_questions_time: stores questions_time and commits; the import
\* "from bot import bot, scheduler" that follows finds neither name in bot.py
\* and raises, so schedule_audio_workflow is not reached.
process_questions_time(u, t) ==
    /\ started
    /\ langSettings[u].exists
    /\ langSettings' = [langSettings EXCEPT ![u].questions_time = t]
    /\ last' = [NoLast EXCEPT !.op = "questions_time", !.u = u, !.at = t, !.raised = TRUE]
    /\ UNCHANGED <<storeVars, schedVars, q, calls, delegVars, dtasks, loaded, langVars>>

StartNext ==
    \/ Startup
    \/ \E u \in AllUserIds : create_habit(u, "daily", {}, HM(8, 0), NoTemplate, FALSE)
    \/ \E u \in UserIds, tz \in TzButtons : settings_tz_set(u, tz)
    \/ \E u \in UserIds : settings_morning_save(u, HM(7, 30))
    \/ \E u \in UserIds : settings_evening_save(u, HM(20, 0))
    \/ \E u \in UserIds : settings_morning_off(u)
    \/ \E u \in UserIds : settings_evening_off(u)
    \/ \E u \in UserIds : process_questions_time(u, HM(20, 0))

SpecStart == StartInit /\ [][StartNext]_vars

\* ---------------------------------------------------- delegation reminders

\* Hours the clock of the delegation model runs to.
MaxClock == 66

\* Deadlines the assigner gives: "tomorrow" and "2days" (parse_deadline_input).
DeadlineDays == {1, 2}

\* timedelta.days of a timedelta that is not negative.
DaysOf(delta) == delta \div HoursPerDay

\* _process_reminder with the halfway branch taken below two reminders.
_process_reminder_halfway_below_two(dt, now) ==
    LET time_until_deadline == dt.deadline - now
        task_age == now - dt.created_at
        total_duration == dt.deadline - dt.created_at
        days_left == DaysOf(time_until_deadline)
    IN  IF time_until_deadline < 0 THEN "overdue"
        ELSE IF 2 * task_age >= total_duration /\ dt.reminder_count < 2 THEN "halfway"
        ELSE IF days_left = 1 /\ dt.reminder_count < 2 THEN "one_day"
        ELSE IF days_left = 0 /\ dt.reminder_count < 3 THEN "today"
        ELSE "none"

\* _process_reminder: the reminder a sweep at now picks for the task;
\* progress >= 0.5 is task_age / total_duration >= 0.5 with total_duration > 0.
_process_reminder(dt, now) ==
    LET time_until_deadline == dt.deadline - now
        task_age == now - dt.created_at
        total_duration == dt.deadline - dt.created_at
        days_left == DaysOf(time_until_deadline)
    IN  IF time_until_deadline < 0 THEN "overdue"
        ELSE IF 2 * task_age >= total_duration /\ dt.reminder_count = 0 THEN "halfway"
        ELSE IF days_left = 1 /\ dt.reminder_count < 2 THEN "one_day"
        ELSE IF days_left = 0 /\ dt.reminder_count < 3 THEN "today"
        ELSE "none"

\* A bookkeeping that counts down.
RemindedCountingDown(dt, now) == [dt EXCEPT !.reminder_count = @ - 1, !.last_reminder_at = now]

\* reminder_count += 1; last_reminder_at = datetime.now(); commit
Reminded(dt, now) == [dt EXCEPT !.reminder_count = @ + 1, !.last_reminder_at = now]

\* A try block whose bookkeeping does not depend on the sends.
DeliveredOrNot(dt, now, ok) == Reminded(dt, now)

\* The try/except of the senders: the bookkeeping follows the sends, and an
\* exception of send_message is logged and leaves the row as it was.
Delivered(dt, now, ok) == IF ok THEN Reminded(dt, now) ELSE dt

\* The Task row of the delegated task is gone (the users always exist).
RowsMissing(dt) == ~dt.task_exists

NothingSent(dt) == [dt |-> dt, toAssignee |-> 0, toAssigner |-> 0, raised |-> FALSE]

\* _send_halfway_reminder, _send_one_day_reminder, _send_today_reminder: one
\* message to the assignee.
_send_reminder(dt, now, ok) ==
    IF RowsMissing(dt) THEN NothingSent(dt)
    ELSE [dt |-> Delivered(dt, now, ok), toAssignee |-> IF ok THEN 1 ELSE 0, toAssigner |-> 0,
          raised |-> ~ok]

\* An overdue sender without the one-day pause.
OverdueNeverThrottled(dt, now) == FALSE

\* time_since_last < timedelta(days=1), when last_reminder_at is set.
OverdueThrottled(dt, now) ==
    dt.last_reminder_at # NoInstant /\ now - dt.last_reminder_at < HoursPerDay

\* _send_overdue_reminder: marks the task overdue, then, unless a reminder
\* went out within the last day, writes to the assignee and to the assigner.
_send_overdue_reminder(dt, now, okAssignee, okAssigner) ==
    LET marked == [dt EXCEPT !.status = "overdue"]
    IN  IF RowsMissing(dt) THEN NothingSent(dt)
        ELSE IF OverdueThrottled(marked, now) THEN NothingSent(marked)
        ELSE [dt |-> Delivered(marked, now, okAssignee /\ okAssigner),
              toAssignee |-> IF okAssignee THEN 1 ELSE 0,
              toAssigner |-> IF okAssignee /\ okAssigner THEN 1 ELSE 0,
              raised |-> ~(okAssignee /\ okAssigner)]

\* check_and_send_reminders: one sweep over the accepted delegated tasks. The
\* job of start() runs it daily; the action may run at any hour of the clock,
\* and more than once within the same hour.
check_and_send_reminders(okAssignee, okAssigner) ==
    /\ started
    /\ LET selected == dtask.exists /\ dtask.status = "accepted"
           tier == IF selected THEN _process_reminder(dtask, clock) ELSE "none"
           r == IF tier = "overdue"
                    THEN _send_overdue_reminder(dtask, clock, okAssignee, okAssigner)
                ELSE IF tier = "none" THEN NothingSent(dtask)
                ELSE _send_reminder(dtask, clock, okAssignee)
       IN  /\ dtask' = r.dt
           /\ sent' = IF tier = "overdue"
                          THEN [sent EXCEPT !.overdue_assignee = @ + r.toAssignee,
                                            !.overdue_assigner = @ + r.toAssigner]
                      ELSE IF tier = "none" THEN sent
                      ELSE [sent EXCEPT ![tier] = @ + r.toAssignee]
           /\ last' = [NoLast EXCEPT !.op = "sweep", !.kind = tier, !.now = clock,
                                     !.count = dtask.reminder_count,
                                     !.stamp = dtask.last_reminder_at,
                                     !.status = dtask.status, !.had = dtask.task_exists,
                                     !.toAssignee = r.toAssignee, !.toAssigner = r.toAssigner,
                                     !.raised = r.raised]
    /\ UNCHANGED <<storeVars, schedVars, q, calls, langSettings, dtasks, loaded, langVars, clock>>

\* Six hours pass.
Tick ==
    /\ clock + HoursPerDay \div 4 <= MaxClock
    /\ clock' = clock + HoursPerDay \div 4
    /\ last' = [NoLast EXCEPT !.op = "tick"]
    /\ UNCHANGED <<storeVars, schedVars, q, calls, langSettings, dtasks, loaded, langVars, dtask, sent>>

\* create_delegated_task: the Task of the assignee and the DelegatedTask row.
create_delegated_task(days) ==
    /\ started
    /\ ~dtask.exists
    /\ dtask' = [exists |-> TRUE, status |-> "pending_acceptance", created_at |-> clock,
                 deadline |-> clock + days * HoursPerDay, reminder_count |-> 0,
                 last_reminder_at |-> NoInstant, task_exists |-> TRUE]
    /\ last' = [NoLast EXCEPT !.op = "delegate"]
    /\ UNCHANGED <<storeVars, schedVars, q, calls, langSettings, dtasks, loaded, langVars, clock,
                 sent>>

\* delegate_accept_callback: only a task pending acceptance is accepted.
delegate_accept_callback ==
    /\ started
    /\ dtask.exists
    /\ dtask' = [dtask EXCEPT !.status = IF @ = "pending_acceptance" THEN "accepted" ELSE @]
    /\ last' = [NoLast EXCEPT !.op = "accept", !.count = dtask.reminder_count,
                              !.status = dtask.status]
    /\ UNCHANGED <<storeVars, schedVars, q, calls, langSettings, dtasks, loaded, langVars, clock,
                 sent>>

\* delegate_reject_callback: only a task pending acceptance is rejected.
delegate_reject_callback ==
    /\ started
    /\ dtask.exists
    /\ dtask' = [dtask EXCEPT !.status = IF @ = "pending_acceptance" THEN "rejected" ELSE @]
    /\ last' = [NoLast EXCEPT !.op = "reject", !.count = dtask.reminder_count,
                              !.status = dtask.status]
    /\ UNCHANGED <<storeVars, schedVars, q, calls, langSettings, dtasks, loaded, langVars, clock,
                 sent>>

\* delegated_task_done_callback: whatever the status was; task.status = "done"
\* raises before the commit when the Task row is gone.
delegated_task_done_callback ==
    /\ started
    /\ dtask.exists
    /\ dtask' = [dtask EXCEPT !.status = IF dtask.task_exists THEN "completed" ELSE @]
    /\ last' = [NoLast EXCEPT !.op = "complete", !.count = dtask.reminder_count,
                              !.status = dtask.status, !.raised = ~dtask.task_exists]
    /\ UNCHANGED <<storeVars, schedVars, q, calls, langSettings, dtasks, loaded, langVars, clock,
                 sent>>

\* task_delete_confirm_callback: the assignee deletes the Task; the
\* DelegatedTask row stays.
task_delete_confirm_callback ==
    /\ started
    /\ dtask.exists
    /\ dtask.task_exists
    /\ dtask' = [dtask EXCEPT !.task_exists = FALSE]
    /\ last' = [NoLast EXCEPT !.op = "task_delete", !.count = dtask.reminder_count,
                              !.status = dtask.status]
    /\ UNCHANGED <<storeVars, schedVars, q, calls, langSettings, dtasks, loaded, langVars, clock,
                 sent>>

\* Two onboarded users, the assigner and the assignee, and no delegated task.
DelegInit ==
    /\ users = [u \in AllUserIds |->
                   [exists |-> TRUE, lang |-> "ru", tz |-> "Europe/Moscow",
                    quiet_hours_from |-> HM(23, 0), quiet_hours_to |-> HM(7, 0),
                    morning_ping_time |-> HM(6, 45), evening_ping_time |-> HM(21, 0)]]
    /\ habits = [h \in HabitIds |-> NoHabit]
    /\ nextHabitId = 1
    /\ completions = <<>>
    /\ contents = [h \in HabitIds |-> [rows |-> 0, used |-> 0]]
    /\ jobs = {}
    /\ lastReg = [id \in JobIds |-> NoTrigger]
    /\ started = FALSE
    /\ last = NoLast
    /\ q = NoQ
    /\ calls = [p \in DoneCalls |-> NoCall]
    /\ langSettings = [u \in UserIds |-> NoLangSettings]
    /\ dtask = NoDelegatedTask
    /\ clock = 0
    /\ sent = NoSent
    /\ NoLanguage

DelegNext ==
    \/ Startup
    \/ Tick
    \/ \E days \in DeadlineDays : create_delegated_task(days)
    \/ delegate_accept_callback
    \/ delegate_reject_callback
    \/ delegated_task_done_callback
    \/ task_delete_confirm_callback
    \/ \E okAssignee \in BOOLEAN, okAssigner \in BOOLEAN :
          check_and_send_reminders(okAssignee, okAssigner)

SpecDeleg == DelegInit /\ [][DelegNext]_vars

\* ------------------------------------- the sweep beside the done handler

\* check_and_send_reminders up to the loop: the session loads the accepted
\* rows and now is taken; the sweep awaits before it touches a row.
sweep_select ==
    /\ started
    /\ loaded.pc = "idle"
    /\ loaded' = IF dtask.exists /\ dtask.status = "accepted"
                 THEN [pc |-> "loaded", dt |-> dtask, now |-> clock]
                 ELSE loaded
    /\ last' = [NoLast EXCEPT !.op = "sweep_select", !.now = clock, !.status = dtask.status]
    /\ UNCHANGED <<storeVars, schedVars, q, calls, langSettings, delegVars, dtasks, langVars>>

\* session.commit() of a session whose object is the loaded copy: the UPDATE
\* sets the columns the sweep changed on its copy, whatever the row holds now.
Flush(row, copy, changed) ==
    [f \in DOMAIN row |-> IF changed[f] # copy[f] THEN changed[f] ELSE row[f]]

\* The loop body of check_and_send_reminders on the row the session loaded
\* (expire_on_commit=False: the copy is not read again).
sweep_process(okAssignee, okAssigner) ==
    /\ loaded.pc = "loaded"
    /\ LET copy == loaded.dt
           tier == _process_reminder(copy, loaded.now)
           r == IF tier = "overdue"
                    THEN _send_overdue_reminder(copy, loaded.now, okAssignee, okAssigner)
                ELSE IF tier = "none" THEN NothingSent(copy)
                ELSE _send_reminder(copy, loaded.now, okAssignee)
       IN  /\ dtask' = Flush(dtask, copy, r.dt)
           /\ sent' = IF tier = "overdue"
                          THEN [sent EXCEPT !.overdue_assignee = @ + r.toAssignee,
                                            !.overdue_assigner = @ + r.toAssigner]
                      ELSE IF tier = "none" THEN sent
                      ELSE [sent EXCEPT ![tier] = @ + r.toAssignee]
           /\ last' = [NoLast EXCEPT !.op = "sweep", !.kind = tier, !.now = loaded.now,
                                     !.count = dtask.reminder_count,
                                     !.stamp = dtask.last_reminder_at,
                                     !.status = dtask.status, !.had = dtask.task_exists,
                                     !.toAssignee = r.toAssignee, !.toAssigner = r.toAssigner,
                                     !.raised = r.raised]
    /\ loaded' = NoLoaded
    /\ UNCHANGED <<storeVars, schedVars, q, calls, langSettings, dtasks, langVars, clock>>

\* An accepted task with its deadline one or two days ahead.
SweepRaceInit ==
    /\ users = [u \in AllUserIds |->
                   [exists |-> TRUE, lang |-> "ru", tz |-> "Europe/Moscow",
                    quiet_hours_from |-> HM(23, 0), quiet_hours_to |-> HM(7, 0),
                    morning_ping_time |-> HM(6, 45), evening_ping_time |-> HM(21, 0)]]
    /\ habits = [h \in HabitIds |-> NoHabit]
    /\ nextHabitId = 1
    /\ completions = <<>>
    /\ contents = [h \in HabitIds |-> [rows |-> 0, used |-> 0]]
    /\ jobs = {}
    /\ lastReg = [id \in JobIds |-> NoTrigger]
    /\ started = FALSE
    /\ last = NoLast
    /\ q = NoQ
    /\ calls = [p \in DoneCalls |-> NoCall]
    /\ langSettings = [u \in UserIds |-> NoLangSettings]
    /\ \E days \in DeadlineDays :
          dtask = [exists |-> TRUE, status |-> "accepted", created_at |-> 0,
                   deadline |-> days * HoursPerDay, reminder_count |-> 0,
                   last_reminder_at |-> NoInstant, task_exists |-> TRUE]
    /\ clock = 0
    /\ sent = NoSent
    /\ NoLanguage

\* The sweep runs for seconds: the clock's six hours pass between sweeps.
TickBetweenSweeps == loaded.pc = "idle" /\ Tick

SweepRaceNext ==
    \/ Startup
    \/ TickBetweenSweeps
    \/ sweep_select
    \/ \E okAssignee \in BOOLEAN, okAssigner \in BOOLEAN : sweep_process(okAssignee, okAssigner)
    \/ delegated_task_done_callback

SpecSweepRace == SweepRaceInit /\ [][SweepRaceNext]_vars

\* ------------------------------------------- the sweep over several tasks

\* A sender whose exception leaves the loop of the sweep.
SendErrorPropagates(r) == r.raised

\* The senders catch every exception of send_message and log it: none
\* reaches the loop of check_and_send_reminders.
SendErrorEscapes(r) == FALSE

\* _process_reminder and the sender it picks, for one row of the sweep.
ProcessTask(dt, now, ok) ==
    LET tier == _process_reminder(dt, now)
    IN  IF tier = "overdue" THEN _send_overdue_reminder(dt, now, ok.assignee, ok.assigner)
        ELSE IF tier = "none" THEN NothingSent(dt)
        ELSE _send_reminder(dt, now, ok.assignee)

RECURSIVE SweepLoop(_, _, _, _)
\* for dt in delegated_tasks: await self._process_reminder(dt, now, session)
SweepLoop(table, ids, now, oks) ==
    IF ids = {} THEN [table |-> table, processed |-> {}, raisedFor |-> {}]
    ELSE LET i == Min(ids)
             r == ProcessTask(table[i], now, oks[i])
             after == [table EXCEPT ![i] = r.dt]
             rest == IF SendErrorEscapes(r)
                         THEN [table |-> after, processed |-> {}, raisedFor |-> {}]
                     ELSE SweepLoop(after, ids \ {i}, now, oks)
         IN  [table |-> rest.table,
              processed |-> rest.processed \cup {i},
              raisedFor |-> rest.raisedFor \cup (IF r.raised THEN {i} ELSE {})]

\* check_and_send_reminders on a table of several delegated tasks.
check_and_send_reminders_all(oks) ==
    /\ started
    /\ LET selected == { i \in DelegIds : dtasks[i].exists /\ dtasks[i].status = "accepted" }
           r == SweepLoop(dtasks, selected, clock, oks)
       IN  /\ dtasks' = r.table
           /\ last' = [NoLast EXCEPT !.op = "sweep_all", !.now = clock, !.selected = selected,
                                     !.processed = r.processed, !.raisedFor = r.raisedFor]
    /\ UNCHANGED <<storeVars, schedVars, q, calls, langSettings, delegVars, loaded, langVars>>

\* Rows of delegated_tasks the handlers leave behind: accepted tasks due in
\* one or two days, a completed task, no row.
SweepRows ==
    { NoDelegatedTask,
      [NoDelegatedTask EXCEPT !.exists = TRUE, !.task_exists = TRUE, !.status = "completed",
                              !.deadline = HoursPerDay] } \cup
    { [NoDelegatedTask EXCEPT !.exists = TRUE, !.task_exists = TRUE, !.status = "accepted",
                              !.deadline = days * HoursPerDay] : days \in DeadlineDays }

SweepInit ==
    /\ users = [u \in AllUserIds |->
                   [exists |-> TRUE, lang |-> "ru", tz |-> "Europe/Moscow",
                    quiet_hours_from |-> HM(23, 0), quiet_hours_to |-> HM(7, 0),
                    morning_ping_time |-> HM(6, 45), evening_ping_time |-> HM(21, 0)]]
    /\ habits = [h \in HabitIds |-> NoHabit]
    /\ nextHabitId = 1
    /\ completions = <<>>
    /\ contents = [h \in HabitIds |-> [rows |-> 0, used |-> 0]]
    /\ jobs = {}
    /\ lastReg = [id \in JobIds |-> NoTrigger]
    /\ started = FALSE
    /\ last = NoLast
    /\ q = NoQ
    /\ calls = [p \in DoneCalls |-> NoCall]
    /\ langSettings = [u \in UserIds |-> NoLangSettings]
    /\ dtask = NoDelegatedTask
    /\ clock = 0
    /\ sent = NoSent
    /\ dtasks \in [DelegIds -> SweepRows]
    /\ loaded = NoLoaded
    /\ lhabits = [h \in LHabitIds |-> NoLHabit]
    /\ progress = <<>>
    /\ lsettings = [exists |-> FALSE, audio_enabled |-> FALSE, has_token |-> FALSE]
    /\ day = 0
    /\ stage = NoStage
    /\ lsent = NoLSent

SweepNext ==
    \/ Startup
    \/ Tick
    \/ \E oks \in [DelegIds -> [assignee : BOOLEAN, assigner : BOOLEAN]] :
          check_and_send_reminders_all(oks)

SpecSweep == SweepInit /\ [][SweepNext]_vars

\* ------------------------------------------------- language stage callbacks

\* Progress rows the language model lets the table hold.
MaxProgressRows == 2

\* daily_goal of a reading habit in hundreds of words, and the words of one
\* fragment of callback_continue_reading.
DailyGoal == 10
FragmentWords == 5

\* LanguageProgress(habit_id, date, ...): the row both writers insert, with
\* the column defaults.
NewProgress(h, d) ==
    [habit_id |-> h, date |-> d, words_read |-> 0, fragments_read |-> 0, audio_sent |-> FALSE,
     text_sent |-> FALSE, questions_sent |-> FALSE, has_questions |-> FALSE]

\* select(LanguageHabit).where(user_id, habit_type == "reading", is_active)
ActiveReading(u) ==
    { h \in LHabitIds : /\ lhabits[h].exists
                        /\ lhabits[h].user_id = u
                        /\ lhabits[h].habit_type = "reading"
                        /\ lhabits[h].is_active }

\* select(LanguageProgress).where(habit_id, func.date(date) == d), as indices.
RowsOf(rows, h, d) == { i \in DOMAIN rows : rows[i].habit_id = h /\ rows[i].date = d }

\* scalar_one_or_none(): raises MultipleResultsFound on more than one row.
MultipleResultsFound(set) == Cardinality(set) > 1
\* scalar_one_or_none(): the row, or 0 for None.
scalar_one_or_none(set) == IF set = {} THEN 0 ELSE CHOOSE i \in set : TRUE

\* A firing of a stage callback that ended as kind says, without a message.
StageEnds(op, kind, raised) ==
    /\ last' = [NoLast EXCEPT !.op = op, !.kind = kind, !.raised = raised, !.date = day]
    /\ UNCHANGED <<progress, lsent>>

\* A questions stage that only wants today's row to exist.
QuestionsSkippedWithoutRow(row) == row = 0

\* "if not progress or not progress.text_sent": the questions stage is skipped.
QuestionsSkipped(row) == row = 0 \/ ~progress[row].text_sent

\* A questions stage that does not look at questions_sent.
QuestionsAlreadySentNever(row) == FALSE

\* "if progress.questions_sent": the questions went out today.
QuestionsAlreadySent(row) == progress[row].questions_sent

\* _send_reading_reminder: the text stage.
_send_reading_reminder(u, sendOk) ==
    /\ started
    /\ LET hs == ActiveReading(u)
           h == scalar_one_or_none(hs)
           rows == RowsOf(progress, h, day)
           row == scalar_one_or_none(rows)
           words_today == IF row = 0 THEN 0 ELSE progress[row].words_read
           goal_reached == lhabits[h].daily_goal - words_today <= 0
       IN  IF MultipleResultsFound(hs) THEN StageEnds("text", "raised", TRUE)
           ELSE IF h = 0 THEN StageEnds("text", "no_habit", FALSE)
           ELSE IF MultipleResultsFound(rows) THEN StageEnds("text", "raised", TRUE)
           ELSE IF ~sendOk THEN StageEnds("text", "send_failed", FALSE)
           ELSE /\ progress' = IF goal_reached \/ row = 0 THEN progress
                               ELSE [progress EXCEPT ![row].text_sent = TRUE]
                /\ UNCHANGED lsent
                /\ last' = [NoLast EXCEPT !.op = "text", !.h = h, !.date = day,
                                          !.kind = IF goal_reached THEN "goal_reached"
                                                   ELSE "reminder",
                                          !.sends = 1, !.had = row # 0]
    /\ UNCHANGED <<storeVars, schedVars, q, calls, langSettings, delegVars, dtasks, loaded, lhabits,
                   lsettings, day, stage>>

\* _send_comprehension_questions: the questions stage; api is what
\* get_comprehension_questions does: "questions", "empty" or "raise".
_send_comprehension_questions(u, api, sendOk) ==
    /\ started
    /\ LET hs == ActiveReading(u)
           h == scalar_one_or_none(hs)
           rows == RowsOf(progress, h, day)
           row == scalar_one_or_none(rows)
       IN  IF MultipleResultsFound(hs) THEN StageEnds("questions", "raised", TRUE)
           ELSE IF h = 0 \/ ~lhabits[h].has_book THEN StageEnds("questions", "no_habit", FALSE)
           ELSE IF MultipleResultsFound(rows) THEN StageEnds("questions", "raised", TRUE)
           ELSE IF QuestionsSkipped(row) THEN StageEnds("questions", "no_text", FALSE)
           ELSE IF QuestionsAlreadySent(row) THEN StageEnds("questions", "already_sent", FALSE)
           ELSE IF ~(lsettings.exists /\ lsettings.has_token)
                    THEN StageEnds("questions", "no_token", FALSE)
           ELSE IF api = "raise" THEN StageEnds("questions", "fetch_failed", FALSE)
           ELSE IF api = "empty" THEN StageEnds("questions", "no_questions", FALSE)
           ELSE IF ~sendOk THEN StageEnds("questions", "send_failed", FALSE)
           ELSE /\ progress' = [progress EXCEPT ![row].questions_sent = TRUE,
                                                ![row].has_questions = TRUE]
                /\ lsent' = [lsent EXCEPT !.questions[day] = @ + 1]
                /\ last' = [NoLast EXCEPT !.op = "questions", !.h = h, !.date = day,
                                          !.kind = "sent", !.sends = 1, !.had = TRUE]
    /\ UNCHANGED <<storeVars, schedVars, q, calls, langSettings, delegVars, dtasks, loaded, lhabits,
                   lsettings, day, stage>>

\* An audio stage that does not look at audio_sent.
AudioAlreadySentNever(row) == FALSE

\* "if progress and progress.audio_sent": the audio went out today.
AudioAlreadySent(row) == row # 0 /\ progress[row].audio_sent

\* _send_audio_fragment up to the lookup of today's row: the guards, then the
\* callback awaits the API with the row (or None) it found.
audio_begin(u) ==
    /\ started
    /\ stage.pc = "idle"
    /\ LET hs == ActiveReading(u)
           h == scalar_one_or_none(hs)
           rows == RowsOf(progress, h, day)
           row == scalar_one_or_none(rows)
           Ends(kind, raised) == StageEnds("audio", kind, raised) /\ UNCHANGED stage
       IN  IF MultipleResultsFound(hs) THEN Ends("raised", TRUE)
           ELSE IF h = 0 \/ ~lhabits[h].has_book THEN Ends("no_habit", FALSE)
           ELSE IF ~(lsettings.exists /\ lsettings.audio_enabled) THEN Ends("disabled", FALSE)
           ELSE IF ~lsettings.has_token
                    THEN /\ last' = [NoLast EXCEPT !.op = "audio", !.kind = "no_token",
                                                   !.date = day, !.sends = 1]
                         /\ UNCHANGED <<progress, lsent, stage>>
           ELSE IF MultipleResultsFound(rows) THEN Ends("raised", TRUE)
           ELSE IF AudioAlreadySent(row) THEN Ends("already_sent", FALSE)
           ELSE /\ stage' = [pc |-> "fetching", row |-> row, h |-> h, today |-> day]
                /\ last' = [NoLast EXCEPT !.op = "audio_begin", !.h = h, !.date = day,
                                          !.had = row # 0]
                /\ UNCHANGED <<progress, lsent>>
    /\ UNCHANGED <<storeVars, schedVars, q, calls, langSettings, delegVars, dtasks, loaded, lhabits,
                   lsettings, day>>

\* _prefetch_next_audio: one more api.read_next on the same book, answered
\* with the fragment after the one just sent (prefetched) or failing; its
\* exception is logged by the caller.
_prefetch_next_audio(prefetched) ==
    [requests |-> 1, fetched |-> IF prefetched THEN 1 ELSE 0]

\* The calls of api.read_next of one delivered run of _send_audio_fragment:
\* how many were made, how many fragments they returned (the book advances by
\* one with each), and which of them, counted from 1, is kept as
\* extra_data["pending_fragment"].
AudioFetches(prefetched) ==
    LET own == [requests |-> 1, fetched |-> 1]
        next == _prefetch_next_audio(prefetched)
    IN  [requests |-> own.requests + next.requests,
         fetched |-> own.fetched + next.fetched,
         stored |-> own.fetched]

\* _send_audio_fragment from read_next on; outcome is what the fetch, the
\* audio generation and the sends come to: "voice" (send_voice delivered),
\* "fallback" (no audio buffer, the text preview delivered), "empty" (no
\* fragment text) or "raise" (an exception inside the try block).
audio_finish(outcome, prefetched) ==
    /\ stage.pc = "fetching"
    /\ stage' = NoStage
    /\ IF outcome \in {"voice", "fallback"}
           THEN /\ IF stage.row = 0
                       THEN /\ Len(progress) < MaxProgressRows
                            /\ progress' = Append(progress,
                                                  [NewProgress(stage.h, day)
                                                      EXCEPT !.audio_sent = TRUE])
                   ELSE progress' = [progress EXCEPT ![stage.row].audio_sent = TRUE]
                /\ lsent' = [lsent EXCEPT !.audio[stage.today] = @ + 1]
                /\ last' = [NoLast EXCEPT !.op = "audio", !.h = stage.h, !.date = stage.today,
                                          !.kind = outcome, !.sends = 1,
                                          !.had = stage.row # 0,
                                          !.requests = AudioFetches(prefetched).requests,
                                          !.fetched = AudioFetches(prefetched).fetched,
                                          !.stored = AudioFetches(prefetched).stored]
       ELSE /\ last' = [NoLast EXCEPT !.op = "audio", !.h = stage.h, !.date = stage.today,
                                      !.kind = outcome]
            /\ UNCHANGED <<progress, lsent>>
    /\ UNCHANGED <<storeVars, schedVars, q, calls, langSettings, delegVars, dtasks, loaded, lhabits,
                   lsettings, day>>

\* callback_continue_reading: the next fragment; finished is the flag of the
\* API's answer. The row of today is looked up and, if absent, inserted.
callback_continue_reading(u, finished) ==
    /\ started
    /\ lsettings.exists /\ lsettings.has_token
    /\ LET hs == ActiveReading(u)
           h == scalar_one_or_none(hs)
           rows == RowsOf(progress, h, day)
           found == scalar_one_or_none(rows)
           table == IF found = 0 THEN Append(progress, NewProgress(h, day)) ELSE progress
           row == IF found = 0 THEN Len(table) ELSE found
       IN  /\ ~MultipleResultsFound(hs)
           /\ h # 0 /\ lhabits[h].has_book
           /\ ~MultipleResultsFound(rows)
           /\ Len(table) <= MaxProgressRows
           /\ table[row].words_read + FragmentWords <= DailyGoal
           /\ progress' = IF finished THEN table
                          ELSE [table EXCEPT ![row].words_read = @ + FragmentWords,
                                             ![row].fragments_read = @ + 1]
           /\ last' = [NoLast EXCEPT !.op = "read_continue", !.h = h, !.date = day,
                                     !.had = found # 0]
    /\ UNCHANGED <<storeVars, schedVars, q, calls, langSettings, delegVars, dtasks, loaded, lhabits,
                   lsettings, day, stage, lsent>>

\* cmd_toggle_audio: /audio_toggle
cmd_toggle_audio ==
    /\ started
    /\ lsettings.exists
    /\ lsettings' = [lsettings EXCEPT !.audio_enabled = ~@]
    /\ last' = [NoLast EXCEPT !.op = "audio_toggle"]
    /\ UNCHANGED <<storeVars, schedVars, q, calls, langSettings, delegVars, dtasks, loaded, lhabits,
                   progress, day, stage, lsent>>

\* Midnight UTC.
NextDay ==
    /\ day < MaxDay
    /\ day' = day + 1
    /\ last' = [NoLast EXCEPT !.op = "midnight"]
    /\ UNCHANGED <<storeVars, schedVars, q, calls, langSettings, delegVars, dtasks, loaded, lhabits,
                   progress, lsettings, stage, lsent>>

\* The reading habit of user 1 as process_book_selection and the habit wizard
\* leave it, with or without a selected book.
ReadingHabits ==
    { [NoLHabit EXCEPT !.exists = TRUE, !.user_id = 1, !.habit_type = "reading",
                       !.is_active = TRUE, !.has_book = has_book, !.daily_goal = DailyGoal]
        : has_book \in BOOLEAN }

\* The language settings of user 1: none, or a row with or without API token
\* and with audio on or off.
LSettings ==
    { [exists |-> FALSE, audio_enabled |-> FALSE, has_token |-> FALSE] } \cup
    { [exists |-> TRUE, audio_enabled |-> a, has_token |-> t] : a, t \in BOOLEAN }

LangInit ==
    /\ users = [u \in UserIds |->
                   [exists |-> TRUE, lang |-> "ru", tz |-> "Europe/Moscow",
                    quiet_hours_from |-> HM(23, 0), quiet_hours_to |-> HM(7, 0),
                    morning_ping_time |-> HM(6, 45), evening_ping_time |-> HM(21, 0)]]
    /\ habits = [h \in HabitIds |-> NoHabit]
    /\ nextHabitId = 1
    /\ completions = <<>>
    /\ contents = [h \in HabitIds |-> [rows |-> 0, used |-> 0]]
    /\ jobs = {}
    /\ lastReg = [id \in JobIds |-> NoTrigger]
    /\ started = FALSE
    /\ last = NoLast
    /\ q = NoQ
    /\ calls = [p \in DoneCalls |-> NoCall]
    /\ langSettings = [u \in UserIds |-> NoLangSettings]
    /\ dtask = NoDelegatedTask
    /\ clock = 0
    /\ sent = NoSent
    /\ dtasks = [i \in DelegIds |-> NoDelegatedTask]
    /\ loaded = NoLoaded
    /\ \E row \in ReadingHabits \cup {NoLHabit} :
          lhabits = [h \in LHabitIds |-> IF h = 1 THEN row ELSE NoLHabit]
    /\ progress = <<>>
    /\ lsettings \in LSettings
    /\ day = 0
    /\ stage = NoStage
    /\ lsent = NoLSent

LangNext ==
    \/ Startup
    \/ NextDay
    \/ cmd_toggle_audio
    \/ \E u \in UserIds, finished \in BOOLEAN : callback_continue_reading(u, finished)
    \/ \E u \in UserIds : audio_begin(u)
    \/ \E outcome \in {"voice", "fallback", "empty", "raise"}, prefetched \in BOOLEAN :
          audio_finish(outcome, prefetched)
    \/ \E u \in UserIds, sendOk \in BOOLEAN : _send_reading_reminder(u, sendOk)
    \/ \E u \in UserIds, api \in {"questions", "empty", "raise"}, sendOk \in BOOLEAN :
          _send_comprehension_questions(u, api, sendOk)

SpecLang == LangInit /\ [][LangNext]_vars

\* ------------------------------------------------- schedule_audio_workflow

\* Time strings schedule_audio_workflow is given: two that _validate_time
\* accepts, an hour CronTrigger rejects, a string without a colon, and the
\* empty string (which also stands for a NULL column).
TimeStrings == {"08:00", "21:30", "24:00", "soon", ""}

\* map(int, time.split(":")): the hour and the minute, or <<>> when the
\* unpacking or int() raises.
SplitTime(time) ==
    CASE time = "08:00" -> <<8, 0>>
      [] time = "21:30" -> <<21, 30>>
      [] time = "24:00" -> <<24, 0>>
      [] OTHER -> <<>>

\* The parse or CronTrigger(hour=..., minute=...) raises ValueError.
StageTimeRaises(time) ==
    \/ SplitTime(time) = <<>>
    \/ SplitTime(time)[1] >= HoursPerDay
    \/ SplitTime(time)[2] >= MinutesPerHour

\* CronTrigger(hour=..., minute=..., timezone=tz) of a stage: every day.
StageTrigger(time, user) ==
    CronTrigger(Weekdays, SplitTime(time)[1], SplitTime(time)[2], ZoneName(user))

\* remove_language_jobs: the three stage jobs of the user, where registered.
remove_language_jobs(S, u) ==
    [S EXCEPT !.jobs = { j \in S.jobs : ~(j.id.u = u /\ j.id.kind \in LanguageJobKinds) }]

\* The stage jobs in the order schedule_audio_workflow registers them.
StageOrder == <<"language_audio", "language_reading", "language_questions">>

RECURSIVE ScheduleStages(_, _, _, _, _)
\* The three parse-and-add_job blocks of schedule_audio_workflow, in order;
\* the first one that raises ends the call.
ScheduleStages(S, u, user, kinds, times) ==
    IF kinds = <<>> THEN S
    ELSE IF StageTimeRaises(Head(times)) THEN [S EXCEPT !.raised = TRUE]
    ELSE ScheduleStages(Registered(S, JobId(Head(kinds), 0, u), StageTrigger(Head(times), user)),
                        u, user, Tail(kinds), Tail(times))

\* schedule_audio_workflow(user_id, audio_time, reading_time, questions_time)
schedule_audio_workflow(u, audio_time, reading_time, questions_time) ==
    /\ started
    /\ LET user == users[u]
           times == <<audio_time, reading_time, questions_time>>
           S == IF ~user.exists THEN Sched
                ELSE IF ZoneInfoRaises(user) THEN [Sched EXCEPT !.raised = TRUE]
                ELSE ScheduleStages(remove_language_jobs(Sched, u), u, user, StageOrder, times)
       IN  /\ jobs' = S.jobs
           /\ lastReg' = S.lastReg
           /\ last' = [NoLast EXCEPT !.op = "schedule_audio_workflow", !.u = u,
                                     !.times = times, !.raised = S.raised,
                                     !.had = user.exists]
    /\ UNCHANGED <<storeVars, started, q, calls, extVars>>

\* The users table of the workflow model: an onboarded user, a user whose
\* stored timezone does not resolve, no row.
WorkflowInit ==
    /\ users \in [UserIds -> { p \in StartProfiles : p.lang = "ru" } \cup {NoUser}]
    /\ habits = [h \in HabitIds |-> NoHabit]
    /\ nextHabitId = 1
    /\ completions = <<>>
    /\ contents = [h \in HabitIds |-> [rows |-> 0, used |-> 0]]
    /\ jobs = {}
    /\ lastReg = [id \in JobIds |-> NoTrigger]
    /\ started = FALSE
    /\ last = NoLast
    /\ q = NoQ
    /\ calls = [p \in DoneCalls |-> NoCall]
    /\ langSettings = [u \in UserIds |-> NoLangSettings]
    /\ dtask = NoDelegatedTask
    /\ clock = 0
    /\ sent = NoSent
    /\ NoLanguage

WorkflowNext ==
    \/ Startup
    \/ \E u \in UserIds, audio_time \in TimeStrings, reading_time \in TimeStrings,
          questions_time \in TimeStrings :
          schedule_audio_workflow(u, audio_time, reading_time, questions_time)

SpecWorkflow == WorkflowInit /\ [][WorkflowNext]_vars

\* ------------------------------------------- the stages on the user's clock

\* The hour of the UTC day a trigger fires in.
UtcHourOf(trigger) == (trigger.hour - UtcOffset(trigger.tz) + HoursPerDay) % HoursPerDay

\* The calendar day, in the zone, of the hour c of the UTC clock.
LocalDate(c, zone) == (c + UtcOffset(zone) + HoursPerDay) \div HoursPerDay - 1

\* The scheduler's clock has reached the hour of the user's stage job.
Due(kind, u) ==
    \E j \in jobs : j.id = JobId(kind, 0, u) /\ UtcHourOf(j.trigger) = clock % HoursPerDay

\* An hour passes; datetime.utcnow().date() follows the clock.
Hour ==
    /\ started
    /\ stage.pc = "idle"
    /\ clock + 1 < (MaxDay + 1) * HoursPerDay
    /\ clock' = clock + 1
    /\ day' = (clock + 1) \div HoursPerDay
    /\ last' = [NoLast EXCEPT !.op = "hour"]
    /\ UNCHANGED <<storeVars, schedVars, q, calls, langSettings, dtask, sent, dtasks, loaded,
                   lhabits, progress, lsettings, stage, lsent>>

\* The language settings are saved at hour 0 with the stage times the user
\* typed, and the three jobs are registered in the user's zone.
ScheduleStagesOnce ==
    /\ clock = 0
    /\ \A j \in jobs : j.id.kind \notin LanguageJobKinds
    /\ \E u \in UserIds, reading_time \in {"08:00", "21:30"} :
          schedule_audio_workflow(u, "08:00", reading_time, "21:30")

FireAudio == \E u \in UserIds : Due("language_audio", u) /\ audio_begin(u)

FireReading ==
    \E u \in UserIds, sendOk \in BOOLEAN :
       Due("language_reading", u) /\ _send_reading_reminder(u, sendOk)

FireQuestions ==
    \E u \in UserIds, api \in {"questions", "empty", "raise"}, sendOk \in BOOLEAN :
       Due("language_questions", u) /\ _send_comprehension_questions(u, api, sendOk)

\* An onboarded user in one of three zones, with a reading habit, a book,
\* audio on and an API token.
ZoneInit ==
    /\ \E tz \in KnownZones :
          users = [u \in UserIds |->
                      [exists |-> TRUE, lang |-> "ru", tz |-> tz,
                       quiet_hours_from |-> NoTime, quiet_hours_to |-> NoTime,
                       morning_ping_time |-> NoTime, evening_ping_time |-> NoTime]]
    /\ habits = [h \in HabitIds |-> NoHabit]
    /\ nextHabitId = 1
    /\ completions = <<>>
    /\ contents = [h \in HabitIds |-> [rows |-> 0, used |-> 0]]
    /\ jobs = {}
    /\ lastReg = [id \in JobIds |-> NoTrigger]
    /\ started = FALSE
    /\ last = NoLast
    /\ q = NoQ
    /\ calls = [p \in DoneCalls |-> NoCall]
    /\ langSettings = [u \in UserIds |-> NoLangSettings]
    /\ dtask = NoDelegatedTask
    /\ clock = 0
    /\ sent = NoSent
    /\ dtasks = [i \in DelegIds |-> NoDelegatedTask]
    /\ loaded = NoLoaded
    /\ lhabits = [h \in LHabitIds |->
                     IF h = 1
                     THEN [NoLHabit EXCEPT !.exists = TRUE, !.user_id = 1,
                                           !.habit_type = "reading", !.is_active = TRUE,
                                           !.has_book = TRUE, !.daily_goal = DailyGoal]
                     ELSE NoLHabit]
    /\ progress = <<>>
    /\ lsettings = [exists |-> TRUE, audio_enabled |-> TRUE, has_token |-> TRUE]
    /\ day = 0
    /\ stage = NoStage
    /\ lsent = NoLSent

ZoneNext ==
    \/ Startup
    \/ ScheduleStagesOnce
    \/ Hour
    \/ FireAudio
    \/ \E outcome \in {"voice", "fallback", "empty", "raise"}, prefetched \in BOOLEAN :
          audio_finish(outcome, prefetched)
    \/ FireReading
    \/ FireQuestions

SpecZone == ZoneInit /\ [][ZoneNext]_vars

\* ---------------------------------------------------- check_reading_streaks

\* The streak the model lets a habit reach.
MaxStreak == 4

Max(a, b) == IF a >= b THEN a ELSE b

\* A sweep that takes every habit row.
StreakSelectsAll(h) == lhabits[h].exists

\* select(LanguageHabit).where(habit_type == "reading", is_active == True)
StreakSelects(h) ==
    lhabits[h].exists /\ lhabits[h].habit_type = "reading" /\ lhabits[h].is_active

\* yesterday_progress and yesterday_progress.words_read >= habit.daily_goal
GoalMet(habit, rows, row) == row # 0 /\ rows[row].words_read >= habit.daily_goal

RECURSIVE StreakLoop(_, _, _, _, _)
\* The loop of check_reading_streaks over the selected habits; the lookup
\* of yesterday's row raises on two rows and ends the sweep.
StreakLoop(table, ids, rows, today, oks) ==
    IF ids = {} THEN [table |-> table, attempted |-> {}, raised |-> FALSE]
    ELSE LET h == Min(ids)
             habit == table[h]
             found == RowsOf(rows, h, today - 1)
             row == scalar_one_or_none(found)
             continued == [habit EXCEPT !.current_streak = @ + 1,
                                        !.longest_streak = Max(@, habit.current_streak + 1),
                                        !.last_completed = today]
             broken == [habit EXCEPT !.current_streak = 0]
             met == GoalMet(habit, rows, row)
             rest == StreakLoop([table EXCEPT ![h] = IF met THEN continued ELSE broken],
                                ids \ {h}, rows, today, oks)
         IN  IF MultipleResultsFound(found)
                 THEN [table |-> table, attempted |-> {}, raised |-> TRUE]
             ELSE [rest EXCEPT !.attempted =
                                  @ \cup (IF ~met /\ habit.current_streak > 0 THEN {h} ELSE {})]

\* check_reading_streaks: one commit after the loop; an exception inside the
\* loop leaves the session without it.
check_reading_streaks(oks) ==
    /\ started
    /\ LET selected == { h \in LHabitIds : StreakSelects(h) }
           r == StreakLoop(lhabits, selected, progress, day, oks)
       IN  /\ \A h \in selected : lhabits[h].current_streak < MaxStreak
           /\ lhabits' = IF r.raised THEN lhabits ELSE r.table
           /\ last' = [NoLast EXCEPT !.op = "streaks", !.date = day, !.selected = selected,
                                     !.attempted = r.attempted, !.raised = r.raised,
                                     !.raisedFor = { h \in r.attempted : ~oks[h] }]
    /\ UNCHANGED <<storeVars, schedVars, q, calls, langSettings, delegVars, dtasks, loaded, progress,
                   lsettings, day, stage, lsent>>

\* Rows of language_habits: reading habits with and without a streak, an
\* inactive reading habit, a grammar habit, no row; habit h belongs to user h.
StreakHabits(h) ==
    { NoLHabit } \cup
    { [NoLHabit EXCEPT !.exists = TRUE, !.user_id = h, !.habit_type = "reading",
                       !.is_active = TRUE, !.has_book = TRUE, !.daily_goal = DailyGoal,
                       !.current_streak = streak[1], !.longest_streak = streak[2]]
        : streak \in {<<0, 0>>, <<2, 2>>, <<1, 3>>} } \cup
    { [NoLHabit EXCEPT !.exists = TRUE, !.user_id = h, !.habit_type = "reading",
                       !.is_active = FALSE, !.has_book = TRUE, !.daily_goal = DailyGoal,
                       !.current_streak = 2, !.longest_streak = 2],
      [NoLHabit EXCEPT !.exists = TRUE, !.user_id = h, !.habit_type = "grammar",
                       !.is_active = TRUE, !.daily_goal = DailyGoal,
                       !.current_streak = 1, !.longest_streak = 1] }

\* Yesterday's progress rows: below and at the daily goal.
StreakRows ==
    { [NewProgress(h, 0) EXCEPT !.words_read = w] : h \in LHabitIds,
                                                    w \in {FragmentWords, DailyGoal} }

\* The tables on the morning of day 1: up to MaxProgressRows rows of day 0,
\* two of them for the same habit where the audio stage and the reading
\* handler both inserted one.
StreakInit ==
    /\ users = [u \in UserIds |->
                   [exists |-> TRUE, lang |-> "ru", tz |-> "Europe/Moscow",
                    quiet_hours_from |-> HM(23, 0), quiet_hours_to |-> HM(7, 0),
                    morning_ping_time |-> HM(6, 45), evening_ping_time |-> HM(21, 0)]]
    /\ habits = [h \in HabitIds |-> NoHabit]
    /\ nextHabitId = 1
    /\ completions = <<>>
    /\ contents = [h \in HabitIds |-> [rows |-> 0, used |-> 0]]
    /\ jobs = {}
    /\ lastReg = [id \in JobIds |-> NoTrigger]
    /\ started = FALSE
    /\ last = NoLast
    /\ q = NoQ
    /\ calls = [p \in DoneCalls |-> NoCall]
    /\ langSettings = [u \in UserIds |-> NoLangSettings]
    /\ dtask = NoDelegatedTask
    /\ clock = 0
    /\ sent = NoSent
    /\ dtasks = [i \in DelegIds |-> NoDelegatedTask]
    /\ loaded = NoLoaded
    /\ \E h1 \in StreakHabits(1), h2 \in StreakHabits(2) : lhabits = <<h1, h2>>
    /\ \E n \in 0..MaxProgressRows : progress \in [1..n -> StreakRows]
    /\ lsettings = [exists |-> FALSE, audio_enabled |-> FALSE, has_token |-> FALSE]
    /\ day = 1
    /\ stage = NoStage
    /\ lsent = NoLSent

StreakNext ==
    \/ Startup
    \/ \E oks \in [LHabitIds -> BOOLEAN] : check_reading_streaks(oks)

SpecStreak == StreakInit /\ [][StreakNext]_vars

\* --------------------------------------------------------- remove_user_jobs

RECURSIVE Digits(_)
\* str(n) of a non-negative integer: its decimal digits.
Digits(n) == IF n < 10 THEN <<n>> ELSE Append(Digits(n \div 10), n % 10)

\* needle in hay, for strings as sequences.
Contains(hay, needle) ==
    \E i \in 1..(Len(hay) - Len(needle) + 1) :
       SubSeq(hay, i, i + Len(needle) - 1) = needle

\* The numbers a job id is formatted from, in order; letters and underscores
\* stand between them.
JobIdNumbers(id) == IF id.kind \in {"habit", "pregen"} THEN <<id.h, id.u>> ELSE <<id.u>>

\* str(user_id) in job.id: a run of digits is inside the id exactly when it
\* is inside one of the numbers of the id.
StrInJobId(user_id, id) ==
    \E k \in DOMAIN JobIdNumbers(id) : Contains(Digits(JobIdNumbers(id)[k]), Digits(user_id))

\* ReminderScheduler.remove_user_jobs
remove_user_jobs(u) ==
    /\ jobs' = { j \in jobs : ~StrInJobId(u, j.id) }
    /\ last' = [NoLast EXCEPT !.op = "remove_user_jobs", !.u = u,
                              !.count = Cardinality({ j \in jobs : StrInJobId(u, j.id) })]
    /\ UNCHANGED <<storeVars, lastReg, started, aux>>

\* Users whose jobs are in the registry, and the habits they own.
RemoveUserIds == {1, 2, 12}
RemoveHabitOwner == [h \in {1, 3} |-> IF h = 1 THEN 2 ELSE 12]

\* The jobs schedule_user_reminders registers for them.
RemoveJobs ==
    { [id |-> JobId(kind, 0, u), trigger |-> CronTrigger(Weekdays, 8, 0, "UTC")] :
         kind \in {"morning_ping"}, u \in RemoveUserIds } \cup
    { [id |-> JobId("evening_report", 0, 1), trigger |-> CronTrigger(Weekdays, 21, 0, "UTC")] } \cup
    { [id |-> JobId(kind, h, RemoveHabitOwner[h]), trigger |-> CronTrigger(Weekdays, 8, 0, "UTC")] :
         kind \in {"habit", "pregen"}, h \in DOMAIN RemoveHabitOwner }

RemoveInit ==
    /\ users = [u \in UserIds |-> NoUser]
    /\ habits = [h \in HabitIds |-> NoHabit]
    /\ nextHabitId = 1
    /\ completions = <<>>
    /\ contents = [h \in HabitIds |-> [rows |-> 0, used |-> 0]]
    /\ jobs \in SUBSET RemoveJobs
    /\ lastReg = [id \in JobIds |-> NoTrigger]
    /\ started = TRUE
    /\ last = NoLast
    /\ q = NoQ
    /\ calls = [p \in DoneCalls |-> NoCall]
    /\ langSettings = [u \in UserIds |-> NoLangSettings]
    /\ dtask = NoDelegatedTask
    /\ clock = 0
    /\ sent = NoSent
    /\ NoLanguage

RemoveNext == \E u \in RemoveUserIds : remove_user_jobs(u)

SpecRemove == RemoveInit /\ [][RemoveNext]_vars

\* ------------------------------------------------------------------ claims

HabitJob(h) == JobId("habit", h, habits[h].user_id)
JobsWithId(id) == { j \in jobs : j.id = id }
TimeOf(trigger) == HM(trigger.hour, trigger.minute)

\* C1: however often a habit is (re)scheduled, also after its time of day was
\* edited, the registry holds at most one job per reminder id and per
\* pre-generation id, each with the trigger of its most recent registration
\* (after an edit of an active habit: the edited time), and a reminder only
\* ever fires at that most recently registered time.
C1_ReplacementIsExclusive ==
    /\ \A id \in JobIds : Cardinality(JobsWithId(id)) <= 1
    /\ \A j \in jobs : j.trigger = lastReg[j.id]
    /\ (last.op = "habit_edit_time" /\ habits[last.h].active) =>
          \A j \in jobs :
             /\ j.id = JobId("habit", last.h, last.u) => TimeOf(j.trigger) = last.at
             /\ j.id = JobId("pregen", last.h, last.u) =>
                   TimeOf(j.trigger) = (last.at - PregenLead + MinutesPerDay) % MinutesPerDay
    /\ (last.op = "fire" /\ last.kind = "habit") =>
          last.at = TimeOf(lastReg[JobId("habit", last.h, last.u)])

\* C1 witness: the time of an active habit was edited to another time and its
\* reminder and pre-generation jobs are registered at the new time.
C1_Witness ==
    /\ last.op = "habit_edit_time"
    /\ habits[last.h].active
    /\ last.old # last.at
    /\ \E j \in jobs : j.id = JobId("habit", last.h, last.u) /\ TimeOf(j.trigger) = last.at
    /\ \E j \in jobs : j.id = JobId("pregen", last.h, last.u)

\* C2: every registered reminder or pre-generation job belongs to a habit
\* that exists and is active (the handlers reschedule before they return, so
\* every state is one reached after a reschedule).
C2_NoJobOfInactiveHabit ==
    \A j \in jobs :
       j.id.kind \in {"habit", "pregen"} => habits[j.id.h].exists /\ habits[j.id.h].active

DoneCount(u, h, date) == Cardinality(DoneRows(completions, u, h, date))

\* C3: after habit_done_callback has run for an existing habit there is
\* exactly one done record for its (user, habit, date); if one existed before
\* the call, the call inserted nothing and answered "already recorded", and it
\* never ends in an error.
C3_DoneIsIdempotent ==
    (last.op = "habit_done" /\ last.answer # "not_found") =>
       /\ DoneCount(last.u, last.h, last.date) = 1
       /\ last.answer # "error"
       /\ last.had => (last.answer = "already" /\ ~last.changed)

\* C3 witness: a second "done" for the same (user, habit, date) was answered
\* with "already recorded".
C3_Witness ==
    /\ last.op = "habit_done"
    /\ last.had
    /\ last.answer = "already"
    /\ DoneCount(last.u, last.h, last.date) = 1

\* C4: there is at most one done record per (habit, date), also when
\* habit_done_callback invocations interleave at their awaits.
C4_AtMostOneDone ==
    \A u \in UserIds, h \in HabitIds, date \in Dates : DoneCount(u, h, date) <= 1

\* The contract of the quiet-hours window: no window when a bound is absent,
\* [from, to) when from <= to, the wrap past midnight otherwise.
InWindow(quiet_from, quiet_to, now) ==
    /\ quiet_from # NoTime
    /\ quiet_to # NoTime
    /\ \/ quiet_from <= quiet_to /\ quiet_from <= now /\ now < quiet_to
       \/ quiet_from > quiet_to /\ (now >= quiet_from \/ now < quiet_to)

\* C5: _is_quiet_hours is false when a bound is absent, true exactly on
\* [quiet_from, quiet_to) when quiet_from <= quiet_to, and true exactly when
\* now >= quiet_from or now < quiet_to when quiet_from > quiet_to.
C5_QuietHoursContract ==
    q.evaluated => (q.result <=> InWindow(q.quiet_from, q.quiet_to, q.now))

\* C5 witness: the window 22:00-07:00 evaluated at 23:30 is quiet.
C5_Witness ==
    /\ q.evaluated
    /\ q.quiet_from = HM(22, 0) /\ q.quiet_to = HM(7, 0) /\ q.now = HM(23, 30)
    /\ q.result

\* C6: a habit reminder, morning ping or evening report that fires while the
\* user is in quiet hours, or for a missing user, or (habit reminder) for a
\* missing or inactive habit, sends nothing and changes nothing in the store.
C6_SuppressedFiringIsSilent ==
    (/\ last.op = "fire"
     /\ last.kind \in {"habit", "morning_ping", "evening_report"}
     /\ \/ ~users[last.u].exists
        \/ InWindow(users[last.u].quiet_hours_from, users[last.u].quiet_hours_to, last.now)
        \/ last.kind = "habit" /\ (~habits[last.h].exists \/ ~habits[last.h].active))
    => (last.sends = 0 /\ ~last.changed)

\* C6 witness: the reminder of an active habit that wants generated content
\* fired at 06:30 inside the quiet hours 23:00-07:00 and did nothing.
C6_Witness ==
    /\ last.op = "fire" /\ last.kind = "habit"
    /\ habits[last.h].exists /\ habits[last.h].active
    /\ habits[last.h].include_content /\ ~IsLanguageCategory(habits[last.h].template_id)
    /\ last.now = HM(6, 30)
    /\ InWindow(users[last.u].quiet_hours_from, users[last.u].quiet_hours_to, last.now)
    /\ last.sends = 0 /\ ~last.changed

Later(instants, lead) == { (w + lead) % WeekMinutes : w \in instants }

\* C8: for every habit with a pre-generation job, the instants of the week
\* the pre-generation job fires at are exactly the instants 5 minutes before
\* the firings of the habit's reminder job.
C8_PregenFiveMinutesBefore ==
    \A p \in jobs : p.id.kind = "pregen" =>
       \A r \in jobs : r.id = JobId("habit", p.id.h, p.id.u) =>
          Later(FireInstants(p.trigger), PregenLead) = FireInstants(r.trigger)

\* The BYDAY tokens of an rrule and the weekdays (0 = Monday) they name.
BydayTokens(rrule) ==
    UNION { SeqRange(rrule[i].val) : i \in { k \in 1..Len(rrule) : rrule[k].key = "BYDAY" } }
NamedWeekdays(rrule) == { d \in Weekdays : DayNames[d + 1] \in BydayTokens(rrule) }

\* C9: once the process has started, an active weekly habit whose rrule names
\* the weekdays D has exactly one reminder job, firing on the weekdays D
\* (0 = Monday .. 6 = Sunday) and no others, at the habit's time of day in the
\* user's timezone; and a reminder of a weekly habit fires only on a weekday
\* its rrule names.
C9_WeeklyFiresOnNamedDays ==
    /\ \A h \in HabitIds :
          (/\ started
           /\ habits[h].exists /\ habits[h].active /\ habits[h].schedule_type = "weekly"
           /\ habits[h].time_of_day # NoTime
           /\ NamedWeekdays(habits[h].rrule) # {})
          => /\ Cardinality(JobsWithId(HabitJob(h))) = 1
             /\ \A j \in JobsWithId(HabitJob(h)) :
                   /\ j.trigger.days = NamedWeekdays(habits[h].rrule)
                   /\ TimeOf(j.trigger) = habits[h].time_of_day
                   /\ j.trigger.tz = ZoneName(users[habits[h].user_id])
    /\ (/\ last.op = "fire" /\ last.kind = "habit"
        /\ habits[last.h].exists /\ habits[last.h].active
        /\ habits[last.h].schedule_type = "weekly"
        /\ habits[last.h].rrule # NoRrule)
       => last.dow \in NamedWeekdays(habits[last.h].rrule)

\* C9 witness: a habit on Mondays and Wednesdays at 08:00 of a user in
\* Europe/Moscow has fired on a Wednesday.
C9_Witness ==
    /\ last.op = "fire" /\ last.kind = "habit" /\ last.dow = 2 /\ last.at = HM(8, 0)
    /\ habits[last.h].exists /\ habits[last.h].active
    /\ habits[last.h].schedule_type = "weekly"
    /\ NamedWeekdays(habits[last.h].rrule) = {0, 2}
    /\ users[last.u].tz = "Europe/Moscow"

\* C10: a weekly habit whose rrule names no valid weekday (no BYDAY part, or
\* only unknown tokens) has no reminder job and no pre-generation job, and
\* scheduling it does not raise to the caller.
C10_MalformedRruleRegistersNothing ==
    \A h \in HabitIds :
       (/\ habits[h].exists /\ habits[h].schedule_type = "weekly"
        /\ habits[h].rrule # NoRrule
        /\ NamedWeekdays(habits[h].rrule) = {})
       => /\ JobsWithId(JobId("habit", h, habits[h].user_id)) = {}
          /\ JobsWithId(JobId("pregen", h, habits[h].user_id)) = {}
          /\ last.op \in {"startup", "habit_toggle", "habit_edit_time"} => ~last.raised

\* C10 witness: an active weekly habit whose BYDAY holds only unknown tokens
\* has been through a rescheduling.
C10_Witness ==
    /\ last.op \in {"startup", "habit_toggle", "habit_edit_time"}
    /\ \E h \in HabitIds :
          /\ habits[h].exists /\ habits[h].active /\ habits[h].schedule_type = "weekly"
          /\ habits[h].time_of_day # NoTime
          /\ BydayTokens(habits[h].rrule) # {}
          /\ NamedWeekdays(habits[h].rrule) = {}

Onboarded(u) == users[u].exists /\ users[u].lang # ""

\* C11: no job is registered for a user whose lang is unset, whichever
\* operation did the scheduling (the startup rebuild or a habit handler).
C11_NoJobForUnonboardedUser ==
    \A j \in jobs : users[j.id.u].lang # ""

\* A schedule _schedule_habit_reminder can resolve: daily, or weekly with at
\* least one known weekday.
ValidSchedule(habit) ==
    \/ habit.schedule_type = "daily"
    \/ habit.schedule_type = "weekly" /\ NamedWeekdays(habit.rrule) # {}

PingRegistered(u, kind, t) ==
    /\ Cardinality(JobsWithId(JobId(kind, 0, u))) = 1
    /\ \A j \in JobsWithId(JobId(kind, 0, u)) :
          j.trigger = CronTrigger(Weekdays, hour(t), minute(t), ZoneName(users[u]))

\* The jobs the rebuild owes user u: the pings that are set and one reminder
\* per active habit with a time of day and a valid schedule.
UserJobsRegistered(u) ==
    /\ users[u].morning_ping_time # NoTime =>
          PingRegistered(u, "morning_ping", users[u].morning_ping_time)
    /\ users[u].evening_ping_time # NoTime =>
          PingRegistered(u, "evening_report", users[u].evening_ping_time)
    /\ \A h \in HabitIds :
          (/\ habits[h].exists /\ habits[h].user_id = u /\ habits[h].active
           /\ habits[h].time_of_day # NoTime /\ ValidSchedule(habits[h]))
          => Cardinality(JobsWithId(JobId("habit", h, u))) = 1

\* C12: when reschedule_all_users has completed (without raising) on the
\* empty registry of a new process, every onboarded user has a morning-ping
\* job if morning_ping_time is set, an evening-report job if evening_ping_time
\* is set, and one reminder job per active habit with a time of day and a
\* valid schedule.
C12_RebuildRegistersEveryUser ==
    (last.op = "startup" /\ ~last.raised) =>
       \A u \in DOMAIN users : Onboarded(u) => UserJobsRegistered(u)

\* C12 witness: the rebuild has completed for two onboarded users with both
\* pings, the second of them with an active weekly habit: five jobs.
C12_Witness ==
    /\ last.op = "startup" /\ ~last.raised
    /\ \A u \in DOMAIN users :
          Onboarded(u) /\ users[u].morning_ping_time # NoTime
                       /\ users[u].evening_ping_time # NoTime
    /\ habits[1].exists /\ habits[1].user_id = 2 /\ habits[1].active
    /\ habits[1].schedule_type = "weekly" /\ ValidSchedule(habits[1])
    /\ Cardinality(jobs) = 5

\* C13: once the process has started, every onboarded user whose language
\* settings hold audio_time, reading_time and questions_time has the jobs
\* language_audio_{u}, language_reading_{u} and language_questions_{u}.
C13_LanguageJobsRebuilt ==
    started =>
       \A u \in DOMAIN users :
          (/\ Onboarded(u)
           /\ langSettings[u].audio_time # NoTime
           /\ langSettings[u].reading_time # NoTime
           /\ langSettings[u].questions_time # NoTime)
          => \A kind \in LanguageJobKinds : JobsWithId(JobId(kind, 0, u)) # {}

\* C14: the startup rebuild never raises to _main, and after it every
\* onboarded user whose timezone resolves has their jobs, whatever happened
\* while another user was scheduled.
C14_RebuildAbsorbsFailures ==
    last.op = "startup" =>
       /\ ~last.raised
       /\ \A u \in DOMAIN users :
             (Onboarded(u) /\ ~ZoneInfoRaises(users[u])) => UserJobsRegistered(u)

\* C15: after a settings handler has committed a new morning_ping_time,
\* evening_ping_time or timezone, every registered job of that user carries
\* the persisted values: the pings their hour and minute, every job the zone.
C15_JobsFollowSettings ==
    last.op \in {"settings_tz", "settings_morning", "settings_evening"} =>
       \A j \in jobs : j.id.u = last.u =>
          /\ j.trigger.tz = ZoneName(users[last.u])
          /\ j.id.kind = "morning_ping" => TimeOf(j.trigger) = users[last.u].morning_ping_time
          /\ j.id.kind = "evening_report" => TimeOf(j.trigger) = users[last.u].evening_ping_time

\* C16: however often the sweep runs, the "one day left" reminder has been
\* delivered at most once for the delegated task, and so has the "due today"
\* reminder.
C16_OneDayAndTodayAtMostOnce ==
    /\ sent.one_day <= 1
    /\ sent.today <= 1

\* progress >= 0.5 at the instant now, for a task whose deadline has not passed.
HalfwayReached(dt, now) ==
    /\ now <= dt.deadline
    /\ 2 * (now - dt.created_at) >= dt.deadline - dt.created_at

\* C17: however many sweeps run while the progress of the task is at or
\* above one half, the halfway reminder is delivered at most once.
C17_HalfwayAtMostOnce == sent.halfway <= 1

\* A sweep found the accepted task at or past the half of its time after the
\* halfway reminder had been delivered, and did not deliver it again.
C17_Witness ==
    /\ last.op = "sweep"
    /\ last.status = "accepted"
    /\ last.had
    /\ last.count >= 1
    /\ HalfwayReached(dtask, last.now)
    /\ sent.halfway = 1

\* C18: no step of the sweep or of the accept, reject and complete handlers
\* (nor the deletion of the task) lowers reminder_count of the delegated task.
C18_ReminderCountNeverDecreases ==
    [][dtask.exists => dtask'.reminder_count >= dtask.reminder_count]_vars

\* The assignee completed a task that had been reminded of twice or more,
\* and the counter stands where the sweeps left it.
C18_Witness ==
    /\ last.op = "complete"
    /\ last.count >= 2
    /\ dtask.status = "completed"
    /\ dtask.reminder_count = last.count

\* All messages of the reminder the last sweep picked went out.
ReminderDelivered ==
    /\ last.toAssignee = 1
    /\ last.kind = "overdue" => last.toAssigner = 1

\* C19: a sweep that delivered its reminder (of whichever tier) left
\* reminder_count one higher and last_reminder_at at the instant of the
\* sweep; a sweep whose send raised left both as they were.
C19_CountFollowsDelivery ==
    last.op = "sweep" =>
       /\ ReminderDelivered =>
             /\ dtask.reminder_count = last.count + 1
             /\ dtask.last_reminder_at = last.now
       /\ last.raised =>
             /\ dtask.reminder_count = last.count
             /\ dtask.last_reminder_at = last.stamp

\* A reminder had been delivered before, then the notifier raised in a sweep:
\* the counter and the stamp are those of the earlier delivery.
C19_Witness ==
    /\ last.op = "sweep"
    /\ last.raised
    /\ last.count >= 1
    /\ last.stamp # NoInstant
    /\ dtask.reminder_count = last.count
    /\ dtask.last_reminder_at = last.stamp

\* The last sweep found the task accepted and past its deadline.
SweptOverdue ==
    /\ last.op = "sweep"
    /\ last.status = "accepted"
    /\ last.now > dtask.deadline

\* The last sweep ran less than a day after last_reminder_at.
SweptWithinADay == last.stamp # NoInstant /\ last.now - last.stamp < HoursPerDay

C21_OverdueRemindersRepeat ==
    (/\ last.op = "sweep"
     /\ last.status \in {"accepted", "overdue"}
     /\ last.now > dtask.deadline
     /\ ~SweptWithinADay
     /\ last.had
     /\ ~last.raised) =>
       /\ last.toAssignee = 1
       /\ last.toAssigner = 1

\* C22: a sweep has run _process_reminder on every accepted task it
\* selected, also on those that follow a task for which the notifier raised.
C22_SweepProcessesEveryTask ==
    last.op = "sweep_all" => last.selected \subseteq last.processed

\* The notifier raised for the first task of the sweep and the second task
\* was processed and reminded.
C22_Witness ==
    /\ last.op = "sweep_all"
    /\ 1 \in last.raisedFor
    /\ 2 \in last.processed
    /\ dtasks[2].reminder_count = 1
    /\ dtasks[1].reminder_count = 0

\* Today's progress rows of the active reading habit of user 1.
TodaysRows == UNION { RowsOf(progress, h, day) : h \in ActiveReading(1) }

\* C23: every progress row with questions_sent has text_sent; and a firing
\* of the questions stage on a day whose row is absent or has text_sent false
\* has sent nothing and leaves questions_sent false.
C23_QuestionsRequireText ==
    /\ \A i \in DOMAIN progress : progress[i].questions_sent => progress[i].text_sent
    /\ (last.op = "questions" /\ \A i \in TodaysRows : ~progress[i].text_sent) =>
          /\ last.sends = 0
          /\ \A i \in TodaysRows : ~progress[i].questions_sent

\* The questions went out on a day whose text had been sent, and the firing
\* of the next day found a row without text_sent and was skipped.
C23_Witness ==
    /\ last.op = "questions"
    /\ last.kind = "no_text"
    /\ \E i \in TodaysRows : ~progress[i].text_sent
    /\ \E j \in DOMAIN progress : progress[j].questions_sent /\ progress[j].text_sent

\* C24: after a firing of the text stage that delivered its message to a
\* user with an active reading habit, today's progress row of the habit has
\* text_sent, whether or not a row existed before.
C24_TextStageMarksTextSent ==
    (last.op = "text" /\ last.sends = 1) =>
       \E i \in RowsOf(progress, last.h, last.date) : progress[i].text_sent

\* The audio stage has to skip: no active reading habit with a book, audio
\* disabled (or no settings), or today's row has audio_sent.
AudioMustSkip ==
    \/ \A h \in ActiveReading(1) : ~lhabits[h].has_book
    \/ ~(lsettings.exists /\ lsettings.audio_enabled)
    \/ \E i \in TodaysRows : progress[i].audio_sent

\* This step is a firing of the audio stage.
AudioFires == stage.pc = "idle" /\ last'.op \in {"audio", "audio_begin"}

\* C26: a firing of the audio stage that has to skip sends nothing and
\* changes no row, habit, setting or job; and per day the audio (or its text
\* fallback) is delivered at most once for the habit.
C26_AudioAtMostOnce ==
    /\ [][(AudioFires /\ AudioMustSkip) =>
             /\ last'.sends = 0
             /\ UNCHANGED <<progress, lhabits, lsettings, lsent, stage, jobs>>]_vars
    /\ [](\A d \in Days : lsent.audio[d] <= 1)

\* The audio went out today and a later firing of the same day was skipped.
C26_Witness ==
    /\ last.op = "audio"
    /\ last.kind = "already_sent"
    /\ lsent.audio[day] = 1

\* C27: per day the questions are sent at most once for the habit; after a
\* firing in which the API returned no questions, or the fetch or the send
\* raised, today's row has questions_sent false and holds no questions.
C27_QuestionsAtMostOnce ==
    /\ \A d \in Days : lsent.questions[d] <= 1
    /\ (last.op = "questions" /\ last.kind \in {"no_questions", "fetch_failed", "send_failed"}) =>
          \A i \in TodaysRows : ~progress[i].questions_sent /\ ~progress[i].has_questions

\* The questions went out today and a later firing of the same day was
\* skipped because of questions_sent.
C27_Witness ==
    /\ last.op = "questions"
    /\ last.kind = "already_sent"
    /\ lsent.questions[day] = 1

\* C28: the table holds at most one progress row per language habit and day.
C28_OneRowPerHabitAndDay ==
    \A h \in LHabitIds, d \in Days : Cardinality(RowsOf(progress, h, d)) <= 1

\* The kinds of the stage jobs the registry holds for user u.
StageKinds(u) == { j.id.kind : j \in { k \in jobs : k.id.u = u /\ k.id.kind \in LanguageJobKinds } }

\* C25: after a call of schedule_audio_workflow, returned or raised, the
\* registry holds all three stage jobs of the user or none of them, and when
\* the call returned for an existing user each carries the time of the call.
C25_StageJobsAsAUnit ==
    last.op = "schedule_audio_workflow" =>
       /\ StageKinds(last.u) \in {{}, LanguageJobKinds}
       /\ (StageKinds(last.u) = LanguageJobKinds /\ last.had /\ ~last.raised) =>
             \A j \in jobs :
                (j.id.u = last.u /\ j.id.kind \in LanguageJobKinds) =>
                   \E i \in DOMAIN StageOrder :
                      /\ j.id.kind = StageOrder[i]
                      /\ <<j.trigger.hour, j.trigger.minute>> = SplitTime(last.times[i])

\* Yesterday's progress of habit h reached the daily goal.
ReachedGoalYesterday(h) ==
    \E i \in RowsOf(progress, h, day - 1) : progress[i].words_read >= lhabits[h].daily_goal

\* C29: a run of check_reading_streaks leaves every active reading habit
\* whose yesterday reached the goal with current_streak one higher and
\* longest_streak the larger of its old value and the new streak; every other
\* active reading habit with current_streak 0, a break notification having
\* been attempted exactly when the streak was above 0, the reset not depending
\* on the notifier.
C29_StreaksFollowYesterday ==
    [][last'.op = "streaks" =>
          \A h \in LHabitIds : StreakSelects(h) =>
             IF ReachedGoalYesterday(h)
             THEN /\ lhabits'[h].current_streak = lhabits[h].current_streak + 1
                  /\ lhabits'[h].longest_streak =
                        Max(lhabits[h].longest_streak, lhabits[h].current_streak + 1)
             ELSE /\ lhabits'[h].current_streak = 0
                  /\ h \in last'.attempted <=> lhabits[h].current_streak > 0]_vars

\* The columns of a language habit the streak sweep does not own.
OtherColumns(habit) ==
    [habit EXCEPT !.current_streak = 0, !.longest_streak = 0, !.last_completed = NoInstant]

\* C30: a run of check_reading_streaks changes no progress row, changes of
\* the habits it selects only current_streak, longest_streak and
\* last_completed, and leaves inactive and non-reading habits as they were.
C30_StreakSweepFrame ==
    [][last'.op = "streaks" =>
          /\ progress' = progress
          /\ \A h \in LHabitIds :
                /\ OtherColumns(lhabits'[h]) = OtherColumns(lhabits[h])
                /\ ~(lhabits[h].habit_type = "reading" /\ lhabits[h].is_active) =>
                      lhabits'[h] = lhabits[h]]_vars

\* The sweep reset the streak of habit 1 and continued nothing for habit 2,
\* an inactive or non-reading habit that keeps its streak; yesterday's rows
\* are in the table.
C30_Witness ==
    /\ last.op = "streaks"
    /\ 1 \in last.attempted
    /\ lhabits[1].current_streak = 0
    /\ lhabits[2].exists
    /\ ~(lhabits[2].habit_type = "reading" /\ lhabits[2].is_active)
    /\ lhabits[2].current_streak > 0
    /\ progress # <<>>

\* C31: when building the content raises inside _send_habit_reminder for an
\* active habit with include_content, the user not in quiet hours, the firing
\* makes exactly one send, and the message carries no content.
C31_ContentFailureStillReminds ==
    (last.op = "fire" /\ last.kind = "habit" /\ last.raised) =>
       (last.attempts = 1 /\ last.content = "" /\ last.sends <= 1 /\ ~last.escaped)

\* A habit reminder whose content raised was delivered, without content.
C31_Witness ==
    /\ last.op = "fire" /\ last.kind = "habit"
    /\ last.raised
    /\ last.sends = 1
    /\ last.content = ""

\* C32: when the notifier raises during a habit reminder, a morning ping or
\* an evening report, the callback does not raise, has made exactly one send
\* attempt, and leaves the registry as it was: the job keeps its trigger.
C32_NotifierFailureAbsorbed ==
    [][(last'.op = "fire" /\ last'.failed) =>
          /\ ~last'.escaped
          /\ last'.attempts = 1 /\ last'.sends = 0
          /\ jobs' = jobs
          /\ \E j \in jobs' : j.id.kind = last'.kind /\ j.id.u = last'.u
                              /\ HM(j.trigger.hour, j.trigger.minute) = last'.at]_vars

\* The notifier raised in an evening report; its job is still registered.
C32_Witness ==
    /\ last.op = "fire" /\ last.kind = "evening_report"
    /\ last.failed
    /\ \E j \in jobs : j.id.kind = "evening_report" /\ j.id.u = last.u

\* C33: remove_user_jobs(u) removes every job owned by user u and leaves
\* every job owned by another user registered and unchanged.
C33_RemovesOnlyOwnJobs ==
    [][last'.op = "remove_user_jobs" =>
          jobs' = { j \in jobs : j.id.u # last'.u }]_vars

\* C34: the status of a delegated task changes only along its lifecycle:
\* from pending_acceptance to accepted or rejected, from accepted to overdue
\* or completed, from overdue to completed; a pending_acceptance or rejected
\* task never becomes completed.
C34_StatusFollowsLifecycle ==
    [][(dtask.exists /\ dtask'.status # dtask.status) =>
          \/ dtask.status = "pending_acceptance" /\ dtask'.status \in {"accepted", "rejected"}
          \/ dtask.status = "accepted" /\ dtask'.status \in {"overdue", "completed"}
          \/ dtask.status = "overdue" /\ dtask'.status = "completed"]_vars

\* C35: for every triple (now, quiet_from, quiet_to) the handlers'
\* is_in_quiet_hours returns what the scheduler's _is_quiet_hours returns,
\* the half-open window; at now = quiet_to it returns false.
C35_SnoozeCheckAgreesWithScheduler ==
    q.evaluated =>
       /\ q.snooze <=> q.result
       /\ q.snooze <=> InWindow(q.quiet_from, q.quiet_to, q.now)
       /\ (q.quiet_from # NoTime /\ q.now = q.quiet_to) => ~q.snooze

\* C36: after schedule_user_reminders(u) has completed, the job
\* morning_ping_{u} is registered exactly when the user's stored
\* morning_ping_time is set, and evening_report_{u} exactly when
\* evening_ping_time is set: a reschedule after the time was cleared removes
\* the job.
C36_PingJobsFollowPingTimes ==
    (last.op = "create_habit" /\ ~ZoneInfoRaises(users[last.u])) =>
       /\ get_job(jobs, JobId("morning_ping", 0, last.u))
             <=> users[last.u].morning_ping_time # NoTime
       /\ get_job(jobs, JobId("evening_report", 0, last.u))
             <=> users[last.u].evening_ping_time # NoTime

\* C37: however the sweep and the assignee's done handler interleave, a
\* delegated task whose status is committed as completed stays completed and
\* gets no overdue reminder.
C37_CompletionSurvivesSweep ==
    [][dtask.status = "completed" =>
          /\ dtask'.status = "completed"
          /\ sent'.overdue_assignee = sent.overdue_assignee
          /\ sent'.overdue_assigner = sent.overdue_assigner]_vars

\* C38: a run of the audio stage that delivers requests exactly one next
\* fragment from the Language Content API, so that the book advances by one
\* fragment, and the payload kept as pending_fragment is the fragment fetched
\* last.
C38_OneFetchPerAudioRun ==
    (last.op = "audio" /\ last.kind \in {"voice", "fallback"}) =>
       /\ last.requests = 1
       /\ last.fetched = 1
       /\ last.stored = last.fetched

\* The local calendar day on which the text stage set text_sent on a row: the
\* stage writes the row of the UTC date it fires on, at the hour of its job.
TextSentOnLocalDay(row, u) ==
    { LocalDate(row.date * HoursPerDay + UtcHourOf(j.trigger), j.trigger.tz) :
         j \in { k \in jobs : k.id = JobId("language_reading", 0, u) } }

\* C39: whatever the user's timezone, when the text stage has set text_sent
\* on a local calendar day of the user, the questions stage firing on that
\* same local day finds the row and does not skip for want of the text.
C39_StagesShareTheLocalDay ==
    (last.op = "questions" /\ last.kind = "no_text") =>
       \A u \in UserIds : \A i \in DOMAIN progress :
          progress[i].text_sent =>
             LocalDate(clock, ZoneName(users[u])) \notin TextSentOnLocalDay(progress[i], u)

\* C40: a snooze pressed outside the quiet hours, answered with "in N
\* minutes", arranges the follow-up delivery: the press registers a job or
\* writes to the store, it does not leave the registry and every persisted
\* table as they were.
C40_SnoozeArrangesFollowUp ==
    [][(last'.op = "habit_snooze" /\ last'.answer = "snoozed") =>
          (schedVars' # schedVars \/ storeVars' # storeVars)]_vars

====
